---- MODULE Spec2Model ----
(***************************************************************************)
(* OATT batch channel opener: executePlan (src/src/opener.ts), the         *)
(* candidate/history store (storage section of src/src/models.ts) and the  *)
(* node RPC wrappers (src/src/lnd.ts), as a state machine.  Every await of *)
(* executePlan is a pair of steps: the call is issued, then the node       *)
(* answers and the code runs on to its next await.                         *)
(***************************************************************************)
EXTENDS Integers, Sequences, FiniteSets, TLC

\* ------------------------------------------------------------------ bounds
MaxPlan == 2            \* longest plan.channels drawn in Init
MaxAddrs == 2           \* most addresses the graph knows for one node
MaxRejections == 2      \* longest stored rejection list drawn for the planner
MaxCandidates == 4      \* most candidates in a store handed to createPlan
MaxTicks == 15          \* half days the clock runs on from ClockStart
MaxEdits == 2           \* most edits made to a plan in one session
MaxTokens == 3          \* longest error message drawn, in tokens
MaxFallbackPlan == 1    \* channels of a plan run with the sequential fallback

\* --------------------------------------------------------------- constants
BATCH_SIZE == 3

\* Abbreviated compressed pubkeys (66 hex characters starting 02 or 03).
Peers == {"02aa", "03bb", "02cc"}

None == "none"           \* an undefined string-valued field
Undef == -1             \* an undefined number-valued field

\* ------------------------------------------------------- error classifier
\* A remote error message is a sequence of tokens (words of the message).
\* Includes(msg, kw) is message.includes(kw); the table lists, for every
\* token, the keywords of parseOpenError that occur in it as substrings.
KeywordsIn(tok) ==
    CASE tok = "minimum"      -> {"minimum"}
      [] tok = "anchor"       -> {"anchor"}
      [] tok = "disconnected" -> {"connect"}
      [] tok = "offline"      -> {"offline"}
      [] tok = "refused"      -> {"refused"}
      [] tok = "err"          -> {"err"}
      [] tok = "cherry"       -> {"err"}
      [] tok = "at least"     -> {"at least"}
      [] tok = "peer is not online" -> {"not online"}
      [] OTHER                -> {}

Includes(msg, kw) == \E k \in 1..Len(msg) : kw \in KeywordsIn(msg[k])

\* Pubkey tokens as they may appear in a message; toLowerCase of a match.
PubkeyTokens == Peers \cup {"03BB"}

\* A run of 68 hexadecimal characters, abbreviated: ff and then the 66 of
\* the pubkey 02cc.
HexRun == "ff02cc"

\* The leftmost 66 characters of a token that /(02|03)[0-9a-fA-F]{64}/
\* matches, None when there are none.  The pattern has no anchors, so it
\* matches inside a longer run of hexadecimal characters as well.
PubkeyIn(tok) ==
    CASE tok \in PubkeyTokens -> tok
      [] tok = HexRun         -> "02cc"
      [] OTHER                -> None

ToLowerCase(tok) == IF tok = "03BB" THEN "03bb" ELSE tok

\* First run of decimal digits inside a token, parsed by parseInt; -1 when
\* the token has none.  A pubkey token starts with the digits 02 or 03.
FirstDigits(tok) ==
    CASE tok = "5"                    -> 5
      [] tok \in {"02aa", "02cc"}     -> 2
      [] tok \in {"03bb", "03BB"}     -> 3
      [] tok = "ff02cc"               -> 2
      [] tok = "503"                  -> 503
      [] tok = "chan size of 100000sat is below min chan size of 200000sat"
                                      -> 100000
      [] tok = "funding 1000000sat, channel capacity is 979056sat, which is below 1000000sat"
                                      -> 1000000
      [] OTHER                        -> -1

\* message.match(/(02|03)[0-9a-fA-F]{64}/): the leftmost pubkey token.
\* The match with its letters left as they stand in the message.
PubkeyMatch_caseKept(msg) ==
    IF \E k \in 1..Len(msg) : PubkeyIn(msg[k]) # None
    THEN LET k == CHOOSE k \in 1..Len(msg) :
                     /\ PubkeyIn(msg[k]) # None
                     /\ \A h \in 1..(k - 1) : PubkeyIn(msg[h]) = None
         IN  PubkeyIn(msg[k])
    ELSE None

PubkeyMatch(msg) ==
    IF \E k \in 1..Len(msg) : PubkeyIn(msg[k]) # None
    THEN LET k == CHOOSE k \in 1..Len(msg) :
                     /\ PubkeyIn(msg[k]) # None
                     /\ \A h \in 1..(k - 1) : PubkeyIn(msg[h]) = None
         IN  ToLowerCase(PubkeyIn(msg[k]))
    ELSE None

\* message.match(/minimum.*?(\d+)/i): the first digits after the leftmost
\* occurrence of the keyword; -1 when the pattern does not match.
MinSizeMatch(msg, kw) ==
    IF \E k \in 1..Len(msg) : \E d \in (k + 1)..Len(msg) :
           kw \in KeywordsIn(msg[k]) /\ FirstDigits(msg[d]) >= 0
    THEN LET k == CHOOSE k \in 1..Len(msg) :
                     /\ kw \in KeywordsIn(msg[k])
                     /\ \A h \in 1..(k - 1) : kw \notin KeywordsIn(msg[h])
             d == CHOOSE d \in (k + 1)..Len(msg) :
                     /\ FirstDigits(msg[d]) >= 0
                     /\ \A h \in (k + 1)..(d - 1) : FirstDigits(msg[h]) < 0
         IN  FirstDigits(msg[d])
    ELSE -1

parseOpenError(msg) ==
    LET pubkey == PubkeyMatch(msg)
        minSize == IF MinSizeMatch(msg, "channel size") >= 0
                   THEN MinSizeMatch(msg, "channel size")
                   ELSE IF MinSizeMatch(msg, "minimum") >= 0
                   THEN MinSizeMatch(msg, "minimum")
                   ELSE MinSizeMatch(msg, "at least")
        Parsed(reason) == [reason |-> reason, minSize |-> Undef,
                           details |-> msg, pubkey |-> pubkey]
    IN  IF minSize >= 0
        THEN [reason |-> "min_channel_size", minSize |-> minSize,
              details |-> msg, pubkey |-> pubkey]
        ELSE IF Includes(msg, "anchor") \/ Includes(msg, "feature")
        THEN Parsed("no_anchors")
        ELSE IF Includes(msg, "connect") \/ Includes(msg, "dial")
                \/ Includes(msg, "timeout")
        THEN Parsed("failed_to_connect")
        ELSE IF Includes(msg, "offline") \/ Includes(msg, "not online")
        THEN Parsed("not_online")
        ELSE IF Includes(msg, "no address") \/ Includes(msg, "no route")
        THEN Parsed("no_address")
        ELSE IF Includes(msg, "reject") \/ Includes(msg, "denied")
                \/ Includes(msg, "refused")
        THEN Parsed("rejected")
        ELSE IF Includes(msg, "internal") \/ Includes(msg, "err")
        THEN Parsed("internal_error")
        ELSE Parsed("rejected")

\* The value handed to parseOpenError (error: unknown): a string, an Error,
\* a plain object or an array.  Strings are token sequences; an object is
\* the list of its fields in insertion order.
StringValue(text) == [kind |-> "string", text |-> text]

ErrorValue(message) == [kind |-> "Error", message |-> message]

ObjectValue(fields) == [kind |-> "object", fields |-> fields]

ArrayValue(items) == [kind |-> "array", items |-> items]

Field(key, value) == [key |-> key, value |-> value]

\* JSON.stringify(value), in tokens: a string gives its text, an object its
\* keys each followed by its value, an array its items.  Quotes, braces and
\* colons are no keyword of the classifier and hold no digit.
RECURSIVE Stringify(_)
Stringify(value) ==
    CASE value.kind = "string" -> value.text
      [] value.kind = "object" ->
            IF value.fields = <<>> THEN <<>>
            ELSE << Head(value.fields).key >>
                 \o Stringify(Head(value.fields).value)
                 \o Stringify(ObjectValue(Tail(value.fields)))
      [] value.kind = "array" ->
            IF value.items = <<>> THEN <<>>
            ELSE Stringify(Head(value.items))
                 \o Stringify(ArrayValue(Tail(value.items)))
      [] OTHER -> <<>>

\* String(value), as a template literal inserts an array item.
StringOf(value) ==
    CASE value.kind = "string" -> value.text
      [] value.kind = "object" -> << "[object Object]" >>
      [] OTHER -> Stringify(value)

\* The message parseOpenError classifies: error.message of an Error, the
\* JSON of an object, String(error) otherwise; for an array of two or more
\* items, the first two and the JSON of the third when there is one.
ErrorMessage(error) ==
    IF error.kind = "array" /\ Len(error.items) >= 2
    THEN StringOf(error.items[1]) \o StringOf(error.items[2])
         \o (IF Len(error.items) >= 3 THEN Stringify(error.items[3])
             ELSE <<>>)
    ELSE CASE error.kind = "Error" -> error.message
           [] error.kind \in {"object", "array"} -> Stringify(error)
           [] error.kind = "string" -> error.text
           [] OTHER -> << "undefined" >>

\* ------------------------------------------------------- candidate store
\* candidates.json: the list of stored candidates, in file order.
Rejection(reason, details, minChannelSize, date) ==
    [date |-> date, reason |-> reason, details |-> details,
     minChannelSize |-> minChannelSize]

\* The store before the run: one candidate never rejected, one with an old
\* min_channel_size rejection; the third peer is not in the store.
InitCandidates ==
    << [pubkey |-> "02aa", rejections |-> <<>>, minChannelSize |-> Undef],
       [pubkey |-> "03bb",
        rejections |-> << Rejection("min_channel_size", <<"old">>, 1, 0) >>,
        minChannelSize |-> 1] >>

Max(a, b) == IF a >= b THEN a ELSE b

\* candidates.find(c => c.pubkey === pubkey): index of the first match, 0
\* when there is none.
FindCandidate(cands, pubkey) ==
    IF \E k \in 1..Len(cands) : cands[k].pubkey = pubkey
    THEN CHOOSE k \in 1..Len(cands) :
             /\ cands[k].pubkey = pubkey
             /\ \A h \in 1..(k - 1) : cands[h].pubkey # pubkey
    ELSE 0

\* The learned minimum overwritten by the latest one reported.
addRejection_latestMinimum(cands, pubkey, rejection) ==
    LET k == FindCandidate(cands, pubkey) IN
    IF k = 0 THEN cands
    ELSE [cands EXCEPT
            ![k].rejections = Append(@, rejection),
            ![k].minChannelSize =
                IF rejection.reason = "min_channel_size"
                   /\ rejection.minChannelSize > 0
                THEN rejection.minChannelSize
                ELSE @]

addRejection(cands, pubkey, rejection) ==
    LET k == FindCandidate(cands, pubkey) IN
    IF k = 0 THEN cands
    ELSE [cands EXCEPT
            ![k].rejections = Append(@, rejection),
            ![k].minChannelSize =
                IF rejection.reason = "min_channel_size"
                   /\ rejection.minChannelSize > 0
                THEN Max(IF @ = Undef THEN 0 ELSE @, rejection.minChannelSize)
                ELSE @]

\* Math.max(...minimums of the min_channel_size rejections, 0) || undefined.
MaxMinimum(rejections) ==
    LET sizes == {rejections[j].minChannelSize : j \in
                     {j \in 1..Len(rejections) :
                         /\ rejections[j].reason = "min_channel_size"
                         /\ rejections[j].minChannelSize > 0}}
    IN  IF sizes = {} THEN Undef
        ELSE CHOOSE m \in sizes : \A n \in sizes : n <= m

\* The merge that lets the incoming addedAt through.
upsertCandidate_takesAddedAt(cands, candidate) ==
    LET k == FindCandidate(cands, candidate.pubkey) IN
    IF k = 0 THEN Append(cands, candidate)
    ELSE LET existing == cands[k]
             rejections == existing.rejections \o candidate.rejections
         IN  [cands EXCEPT ![k] =
                [candidate EXCEPT
                    !.history = existing.history \o SelectSeq(
                        candidate.history,
                        LAMBDA h : \A j \in 1..Len(existing.history) :
                                      existing.history[j].channelId
                                          # h.channelId),
                    !.rejections = rejections,
                    !.minChannelSize = MaxMinimum(rejections)]]

\* upsertCandidate: a candidate with a new pubkey is pushed as it is; for a
\* stored pubkey the incoming record takes the place of the stored one, with
\* the stored history followed by the incoming entries whose channelId is
\* not stored, the stored rejections followed by the incoming ones, the
\* stored addedAt, and the learned minimum taken again from the rejections.
upsertCandidate(cands, candidate) ==
    LET k == FindCandidate(cands, candidate.pubkey) IN
    IF k = 0 THEN Append(cands, candidate)
    ELSE LET existing == cands[k]
             rejections == existing.rejections \o candidate.rejections
         IN  [cands EXCEPT ![k] =
                [candidate EXCEPT
                    !.history = existing.history \o SelectSeq(
                        candidate.history,
                        LAMBDA h : \A j \in 1..Len(existing.history) :
                                      existing.history[j].channelId
                                          # h.channelId),
                    !.rejections = rejections,
                    !.addedAt = existing.addedAt,
                    !.minChannelSize = MaxMinimum(rejections)]]

RejectionsOf(cands, pubkey) ==
    LET k == FindCandidate(cands, pubkey) IN
    IF k = 0 THEN <<>> ELSE cands[k].rejections

\* saveOpenHistory: append one record to the day's history file.
saveOpenHistory(file, history) == Append(file, history)

\* ------------------------------------------------------------ node client
\* getNodeInfo: null for a node the graph does not know, else its sockets:
\* none, one, or as many as MaxAddrs.
NoInfo == [found |-> FALSE, addresses |-> <<>>]

NodeInfos == {NoInfo} \cup
    {[found |-> TRUE, addresses |-> [x \in 1..k |-> x]] :
        k \in {0, 1, MaxAddrs}}

\* The pending-channel id and funding address the node makes up for the
\* channel to one partner.
PendingIdFor(pubkey) ==
    CASE pubkey = "02aa" -> "id_a"
      [] pubkey = "03bb" -> "id_b"
      [] pubkey = "02cc" -> "id_c"
      [] OTHER           -> "id_d"

AddressFor(pubkey) ==
    CASE pubkey = "02aa" -> "addr_a"
      [] pubkey = "03bb" -> "addr_b"
      [] pubkey = "02cc" -> "addr_c"
      [] OTHER           -> "addr_d"

\* `dry-run:${attempt.pubkey.slice(0, 8)}`
DryRunId(pubkey) ==
    CASE pubkey = "02aa" -> "dry-run:02aa"
      [] pubkey = "03bb" -> "dry-run:03bb"
      [] pubkey = "02cc" -> "dry-run:02cc"
      [] OTHER           -> "dry-run:03dd"

\* Errors openChannels can answer with.
InitiateErrors ==
    { <<"insufficient", "funds">>, <<"err">>, <<"peer", "offline">>,
      <<"02aa", "minimum", "5">>, <<"minimum", "02cc">> }
    \cup { <<"err", tok>> : tok \in PubkeyTokens }

\* Errors fundPsbt, signPsbt and fundPendingChannels can answer with.
RpcErrors == { <<"err">>, <<"insufficient", "funds">> }

\* The error of a connectPeer that did not get through.
ConnectError == <<"disconnected">>

\* parsed before any catch block has run.
NoError == [reason |-> None, minSize |-> Undef, details |-> <<>>, pubkey |-> None]

\* ------------------------------------------------------------------ state
VARIABLES
    plan,                \* the OpenPlan handed to executePlan
    dryRun,              \* options.dryRun
    now,                 \* what new Date() returns
    pc,                  \* where executePlan stands
    authenticatedLnd,    \* lnd.ts connection singleton is set
    attempts,            \* ChannelOpenAttempt[] built from plan.channels
    infoMap,             \* pubkey -> NodeInfo | null
    connectedSet,        \* pubkeys getConnectedPeers returned
    batchStart,          \* i of the verification loop (0-based)
    probes,              \* the running batch: one probe per attempt
    verificationResults,
    viableAttempts,
    pendingChannels,     \* result.pending of openChannels
    unsignedPsbt,
    signedPsbt,
    parsed,              \* parsed of the catch block that ran
    failure,             \* the failed funding step while stubs are cancelled
    cancelIdx,           \* attempt whose cancelPendingChannel is awaited
    results,             \* OpenResult[] of the run
    returned,            \* the value executePlan resolved with
    candidates,          \* candidates.json
    historyFile,         \* the day's history file
    nodeStubs,           \* node side: pending id -> partner and state
    log,                 \* calls to the node, in order, with their answers
    peerLog,             \* per peer: its connectPeer calls and their answers
    planOptions,         \* the PlanOptions createPlan is called with
    thrown,              \* the value parseOpenError is called with
    planEdits,           \* the edits made to the plan since createPlan
    storeCall            \* the last call made to the candidate store

vars == << plan, dryRun, now, pc, authenticatedLnd, attempts, infoMap,
           connectedSet, batchStart, probes, verificationResults,
           viableAttempts, pendingChannels, unsignedPsbt, signedPsbt,
           parsed, failure, cancelIdx, results, returned, candidates, historyFile,
           nodeStubs, log, peerLog, planOptions, thrown, planEdits, storeCall >>

\* thrown before parseOpenError is called.
NoValue == [kind |-> "undefined"]

\* storeCall before the store is called.
NoCall == [op |-> "none"]

\* No createPlan call is part of the run: the plan is handed in.
NoOptions ==
    [budget |-> 0, defaultSize |-> 0, maxSize |-> 0, openPeerPubkeys |-> {}]

Call(op, arg) == [op |-> op, ev |-> "call", arg |-> arg]
Answer(op, arg, ok) == [op |-> op, ev |-> IF ok THEN "ok" ELSE "err", arg |-> arg]

\* Sequences over S without repetition, of length at most n.
RECURSIVE DistinctSeqs(_, _)
DistinctSeqs(S, n) ==
    IF n = 0 THEN {<<>>}
    ELSE LET shorter == DistinctSeqs(S, n - 1) IN
         shorter \cup
         { Append(t[1], t[2]) :
             t \in {u \in shorter \X S :
                       \A k \in 1..Len(u[1]) : u[1][k] # u[2]} }

\* Funding amounts a planned channel may carry.
PlanAmounts == {100000}

\* alias, a display string copied from the candidate, is left out.
PlannedChannel(pubkey, amount, isMinimumEnforced) ==
    [pubkey |-> pubkey, amount |-> amount,
     isMinimumEnforced |-> isMinimumEnforced]

Plans == {[channels |-> [k \in 1..Len(q) |-> PlannedChannel(q[k], amt, FALSE)]] :
              q \in DistinctSeqs(Peers, MaxPlan), amt \in PlanAmounts}

Init ==
    /\ plan \in Plans
    /\ dryRun \in BOOLEAN
    /\ now = 1
    /\ pc = "start"
    /\ authenticatedLnd \in BOOLEAN
    /\ attempts = <<>>
    /\ infoMap = <<>>
    /\ connectedSet = {}
    /\ batchStart = 0
    /\ probes = <<>>
    /\ verificationResults = <<>>
    /\ viableAttempts = <<>>
    /\ pendingChannels = <<>>
    /\ unsignedPsbt = None
    /\ signedPsbt = None
    /\ parsed = NoError
    /\ failure = None
    /\ cancelIdx = 0
    /\ results = <<>>
    /\ returned = <<>>
    /\ candidates = InitCandidates
    /\ historyFile = <<>>
    /\ nodeStubs = <<>>
    /\ log = <<>>
    /\ peerLog = [p \in Peers |-> <<>>]
    /\ planOptions = NoOptions
    /\ thrown = NoValue
    /\ planEdits = <<>>
    /\ storeCall = NoCall

\* A plan one channel longer than a verification batch, over the peers and
\* one more.
VerifyPeers == Peers \cup {"03dd"}

VerifyPlans ==
    {[channels |-> [k \in 1..Len(q) |-> PlannedChannel(q[k], amt, FALSE)]] :
        q \in {<<"02aa", "03bb", "02cc", "03dd">>}, amt \in PlanAmounts}

\* executePlan called with a plan that needs two verification batches.
VerifyInit ==
    /\ plan \in VerifyPlans
    /\ dryRun \in BOOLEAN
    /\ now = 1
    /\ pc = "start"
    /\ authenticatedLnd \in BOOLEAN
    /\ attempts = <<>>
    /\ infoMap = <<>>
    /\ connectedSet = {}
    /\ batchStart = 0
    /\ probes = <<>>
    /\ verificationResults = <<>>
    /\ viableAttempts = <<>>
    /\ pendingChannels = <<>>
    /\ unsignedPsbt = None
    /\ signedPsbt = None
    /\ parsed = NoError
    /\ failure = None
    /\ cancelIdx = 0
    /\ results = <<>>
    /\ returned = <<>>
    /\ candidates = InitCandidates
    /\ historyFile = <<>>
    /\ nodeStubs = <<>>
    /\ log = <<>>
    /\ peerLog = [p \in VerifyPeers |-> <<>>]
    /\ planOptions = NoOptions
    /\ thrown = NoValue
    /\ planEdits = <<>>
    /\ storeCall = NoCall

\* ------------------------------------------------------------- executePlan
Min(a, b) == IF a <= b THEN a ELSE b

OpenResult(pubkey, success, channelId, error, rejectionReason, detectedMinimum) ==
    [pubkey |-> pubkey, success |-> success, channelId |-> channelId,
     error |-> error, rejectionReason |-> rejectionReason,
     detectedMinimum |-> detectedMinimum]

\* plan.channels.map(ch => ({ pubkey, alias, amount }))
MakeAttempts(p) ==
    [k \in 1..Len(p.channels) |->
        [pubkey |-> p.channels[k].pubkey, amount |-> p.channels[k].amount,
         pendingId |-> None, address |-> None]]

DryRunResults(atts) ==
    [k \in 1..Len(atts) |->
        OpenResult(atts[k].pubkey, TRUE, DryRunId(atts[k].pubkey), <<>>, None, Undef)]

\* saveHistory(plan, results)
saveHistory(file, p, res) ==
    saveOpenHistory(file, [date |-> now, plan |-> p, results |-> res])

\* The history saved before the last results are pushed.
Finish_staleResults(res, lg) ==
    /\ results' = res
    /\ historyFile' = saveHistory(historyFile, plan, results)
    /\ returned' = res
    /\ pc' = "done"
    /\ log' = lg

\* saveHistory(plan, results); return results
Finish(res, lg) ==
    /\ results' = res
    /\ historyFile' = saveHistory(historyFile, plan, res)
    /\ returned' = res
    /\ pc' = "done"
    /\ log' = lg

\* The probe without its "Already connected?" shortcut.
InitialProbe_ignoresConnected(attempt, infos, conn) ==
    LET info == infos[attempt.pubkey] IN
    IF ~info.found \/ Len(info.addresses) = 0
    THEN [attempt |-> attempt, status |-> "fail", j |-> 0,
          reason |-> IF info.found THEN "no_address" ELSE "not_online",
          errorMsg |-> IF info.found THEN <<"Node has no addresses in graph">>
                       ELSE <<"Node not found in graph">>]
    ELSE [attempt |-> attempt, status |-> "wait", j |-> 1,
          reason |-> None, errorMsg |-> <<>>]

\* One probe of the verification batch, run up to its first await.
InitialProbe(attempt, infos, conn) ==
    LET info == infos[attempt.pubkey] IN
    IF attempt.pubkey \in conn
    THEN [attempt |-> attempt, status |-> "ok", j |-> 0,
          reason |-> None, errorMsg |-> <<>>]
    ELSE IF ~info.found \/ Len(info.addresses) = 0
    THEN [attempt |-> attempt, status |-> "fail", j |-> 0,
          reason |-> IF info.found THEN "no_address" ELSE "not_online",
          errorMsg |-> IF info.found THEN <<"Node has no addresses in graph">>
                       ELSE <<"Node not found in graph">>]
    ELSE [attempt |-> attempt, status |-> "wait", j |-> 1,
          reason |-> None, errorMsg |-> <<>>]

\* The batch taking every attempt that is left.
BatchOf_allAtOnce(atts, i) == SubSeq(atts, i + 1, Len(atts))

\* attempts.slice(i, i + BATCH_SIZE)
BatchOf(atts, i) == SubSeq(atts, i + 1, Min(i + BATCH_SIZE, Len(atts)))

ProbeResults(ps) ==
    [k \in 1..Len(ps) |->
        [attempt |-> ps[k].attempt, success |-> ps[k].status = "ok",
         reason |-> ps[k].reason, errorMsg |-> ps[k].errorMsg]]

Waiting(ps) == \E k \in 1..Len(ps) : ps[k].status = "wait"

\* The for loop over the batches, run until a batch has a probe that awaits
\* connectPeer or the attempts are used up.
RECURSIVE AdvanceBatches(_, _, _, _, _)
AdvanceBatches(vr, i, atts, infos, conn) ==
    IF i >= Len(atts)
    THEN [done |-> TRUE, vr |-> vr, i |-> i, probes |-> <<>>]
    ELSE LET batch == BatchOf(atts, i)
             ps == [k \in 1..Len(batch) |-> InitialProbe(batch[k], infos, conn)]
         IN  IF Waiting(ps)
             THEN [done |-> FALSE, vr |-> vr, i |-> i, probes |-> ps]
             ELSE AdvanceBatches(vr \o ProbeResults(ps), i + BATCH_SIZE,
                                 atts, infos, conn)

\* connectPeer(pubkey, address, 15000) for the j-th address of the node is
\* called, and answers.
ConnectCall(pubkey, j) ==
    [op |-> "addPeer", ev |-> "call", arg |-> pubkey, address |-> j]

ConnectAnswer(pubkey, j, ok) ==
    [op |-> "addPeer", ev |-> IF ok THEN "ok" ELSE "err", arg |-> pubkey,
     address |-> j]

\* The connectPeer calls the probes of a starting batch issue.
ConnectCalls(pl, ps) ==
    [p \in DOMAIN pl |->
        IF \E k \in 1..Len(ps) :
               ps[k].status = "wait" /\ ps[k].attempt.pubkey = p
        THEN Append(pl[p], ConnectCall(p, 1))
        ELSE pl[p]]

RECURSIVE AddRejections(_, _)
AddRejections(cands, fails) ==
    IF fails = <<>> THEN cands
    ELSE AddRejections(
             addRejection(cands, Head(fails).attempt.pubkey,
                          Rejection(Head(fails).reason, Head(fails).errorMsg,
                                    Undef, now)),
             Tail(fails))

\* The code between the verification loop and the openChannels call.
AfterVerify(vr, lg) ==
    LET passed == SelectSeq(vr, LAMBDA r : r.success)
        fails == SelectSeq(vr, LAMBDA r : ~r.success)
        viable == [k \in 1..Len(passed) |-> passed[k].attempt]
        res == results \o
               [k \in 1..Len(fails) |->
                   OpenResult(fails[k].attempt.pubkey, FALSE, None,
                              fails[k].errorMsg, fails[k].reason, Undef)]
    IN  /\ verificationResults' = vr
        /\ viableAttempts' = viable
        /\ candidates' = AddRejections(candidates, fails)
        /\ IF viable = <<>>
           THEN Finish(res, lg)
           ELSE /\ results' = res
                /\ pc' = "initiate_wait"
                /\ log' = Append(lg, Call("openChannels", "-"))
                /\ UNCHANGED << returned, historyFile >>

ContinueVerify(vr, i, infos, conn, lg, pl) ==
    LET adv == AdvanceBatches(vr, i, attempts, infos, conn) IN
    /\ batchStart' = adv.i
    /\ probes' = adv.probes
    /\ peerLog' = ConnectCalls(pl, adv.probes)
    /\ IF adv.done
       THEN AfterVerify(adv.vr, lg)
       ELSE /\ verificationResults' = adv.vr
            /\ pc' = "verify_wait"
            /\ log' = lg
            /\ UNCHANGED << viableAttempts, results, returned, candidates,
                            historyFile >>

\* connectLnd() fails to read the macaroon or the certificate.
StartThrows ==
    /\ pc = "start"
    /\ ~authenticatedLnd
    /\ pc' = "thrown"
    /\ UNCHANGED << storeCall, thrown, planEdits, planOptions, plan, dryRun, now, authenticatedLnd, attempts, infoMap,
                    connectedSet, batchStart, probes, verificationResults,
                    viableAttempts, pendingChannels, unsignedPsbt, signedPsbt,
                    parsed, failure, cancelIdx, results, returned, candidates,
                    historyFile, nodeStubs, log, peerLog >>

\* The dry run saving a history record like every other return.
Start_dryRunSavesHistory ==
    /\ pc = "start"
    /\ authenticatedLnd' = TRUE
    /\ attempts' = MakeAttempts(plan)
    /\ IF dryRun
       THEN /\ results' = DryRunResults(attempts')
            /\ returned' = results'
            /\ historyFile' = saveHistory(historyFile, plan, results')
            /\ pc' = "done"
            /\ log' = log
       ELSE /\ pc' = "info_wait"
            /\ log' = log \o [k \in 1..Len(attempts') |->
                                 Call("getNode", attempts'[k].pubkey)]
                          \o << Call("getPeers", "-") >>
            /\ UNCHANGED << results, returned, historyFile >>
    /\ UNCHANGED << storeCall, thrown, planEdits, planOptions, plan, dryRun, now, infoMap, connectedSet, batchStart,
                    probes, verificationResults, viableAttempts,
                    pendingChannels, unsignedPsbt, signedPsbt, parsed, failure,
                    cancelIdx, candidates, nodeStubs, peerLog >>

\* From the call to the await of getNodeInfo / getConnectedPeers, or to the
\* return of the dry run.
Start ==
    /\ pc = "start"
    /\ authenticatedLnd' = TRUE
    /\ attempts' = MakeAttempts(plan)
    /\ IF dryRun
       THEN /\ results' = DryRunResults(attempts')
            /\ returned' = results'
            /\ pc' = "done"
            /\ log' = log
       ELSE /\ pc' = "info_wait"
            /\ log' = log \o [k \in 1..Len(attempts') |->
                                 Call("getNode", attempts'[k].pubkey)]
                          \o << Call("getPeers", "-") >>
            /\ UNCHANGED << results, returned >>
    /\ UNCHANGED << storeCall, thrown, planEdits, planOptions, plan, dryRun, now, infoMap, connectedSet, batchStart,
                    probes, verificationResults, viableAttempts,
                    pendingChannels, unsignedPsbt, signedPsbt, parsed, failure,
                    cancelIdx, candidates, historyFile, nodeStubs, peerLog >>

PlanPubkeys == {plan.channels[k].pubkey : k \in 1..Len(plan.channels)}

\* getConnectedPeers() rejects: nothing catches it.
PeersThrows ==
    /\ pc = "info_wait"
    /\ pc' = "thrown"
    /\ log' = Append(log, Answer("getPeers", "-", FALSE))
    /\ UNCHANGED << storeCall, thrown, planEdits, planOptions, plan, dryRun, now, authenticatedLnd, attempts, infoMap,
                    connectedSet, batchStart, probes, verificationResults,
                    viableAttempts, pendingChannels, unsignedPsbt, signedPsbt,
                    parsed, failure, cancelIdx, results, returned, candidates,
                    historyFile, nodeStubs, peerLog >>

\* The node answers getNode for every attempt and getPeers.
InfoReturn ==
    /\ pc = "info_wait"
    /\ \E infos \in [PlanPubkeys -> NodeInfos], conn \in SUBSET DOMAIN peerLog :
          /\ infoMap' = infos
          /\ connectedSet' = conn
          /\ ContinueVerify(<<>>, 0, infos, conn,
                 log \o [k \in 1..Len(attempts) |->
                            Answer("getNode", attempts[k].pubkey,
                                   infos[attempts[k].pubkey].found)]
                     \o << Answer("getPeers", "-", TRUE) >>,
                 peerLog)
    /\ UNCHANGED << storeCall, thrown, planEdits, planOptions, plan, dryRun, now, authenticatedLnd, attempts,
                    pendingChannels, unsignedPsbt, signedPsbt, parsed, failure,
                    cancelIdx, nodeStubs >>

\* The node answers one connectPeer of the running batch.
ConnectReturn ==
    /\ pc = "verify_wait"
    /\ \E k \in 1..Len(probes), ok \in BOOLEAN :
          /\ probes[k].status = "wait"
          /\ LET p == probes[k]
                 pubkey == p.attempt.pubkey
                 addrs == infoMap[pubkey].addresses
                 np == IF ok THEN [p EXCEPT !.status = "ok"]
                       ELSE IF p.j < Len(addrs) THEN [p EXCEPT !.j = @ + 1]
                       ELSE [p EXCEPT !.status = "fail",
                                      !.reason = "failed_to_connect",
                                      !.errorMsg = <<"Failed to connect:">> \o
                                          parseOpenError(ConnectError).details]
                 ps == [probes EXCEPT ![k] = np]
                 pl == [peerLog EXCEPT ![pubkey] =
                           Append(@, ConnectAnswer(pubkey, p.j, ok)) \o
                           (IF np.status = "wait"
                            THEN << ConnectCall(pubkey, np.j) >>
                            ELSE <<>>)]
             IN  IF Waiting(ps)
                 THEN /\ probes' = ps
                      /\ peerLog' = pl
                      /\ UNCHANGED << pc, log, batchStart, verificationResults,
                                      viableAttempts, results, returned,
                                      candidates, historyFile >>
                 ELSE ContinueVerify(verificationResults \o ProbeResults(ps),
                                     batchStart + BATCH_SIZE, infoMap,
                                     connectedSet, log, pl)
    /\ UNCHANGED << storeCall, thrown, planEdits, planOptions, plan, dryRun, now, authenticatedLnd, attempts, infoMap,
                    connectedSet, pendingChannels, unsignedPsbt, signedPsbt,
                    parsed, failure, cancelIdx, nodeStubs >>

\* result.pending: one pending channel per requested channel, in the order
\* of channelsToOpen.
PendingFor(va) ==
    [k \in 1..Len(va) |->
        [id |-> PendingIdFor(va[k].pubkey),
         address |-> AddressFor(va[k].pubkey), tokens |-> va[k].amount]]

\* The pending channels matched to the attempts from the wrong end.
MatchPending_reversed(va, pend) ==
    [k \in 1..Len(va) |->
        IF k <= Len(pend)
        THEN [va[k] EXCEPT !.pendingId = pend[Len(pend) + 1 - k].id,
                           !.address = pend[Len(pend) + 1 - k].address]
        ELSE va[k]]

\* for (i < pendingChannels.length) viableAttempts[i].pendingId = ...
MatchPending(va, pend) ==
    [k \in 1..Len(va) |->
        IF k <= Len(pend)
        THEN [va[k] EXCEPT !.pendingId = pend[k].id,
                           !.address = pend[k].address]
        ELSE va[k]]

\* openChannels resolves: record the stubs and call fundPsbt.
InitiateOk ==
    /\ pc = "initiate_wait"
    /\ LET pend == PendingFor(viableAttempts) IN
          /\ pendingChannels' = pend
          /\ viableAttempts' = MatchPending(viableAttempts, pend)
          /\ nodeStubs' = [id \in {pend[k].id : k \in 1..Len(pend)} |->
                              [partner |-> (CHOOSE a \in
                                   {viableAttempts[k] : k \in 1..Len(pend)} :
                                   PendingIdFor(a.pubkey) = id).pubkey,
                               state |-> "pending"]]
    /\ pc' = "fund_wait"
    /\ log' = log \o << Answer("openChannels", "-", TRUE),
                        Call("fundPsbt", "-") >>
    /\ UNCHANGED << storeCall, thrown, planEdits, planOptions, plan, dryRun, now, authenticatedLnd, attempts, infoMap,
                    connectedSet, batchStart, probes, verificationResults,
                    unsignedPsbt, signedPsbt, parsed, failure, cancelIdx, results,
                    returned, candidates, historyFile, peerLog >>

\* isImplicated of the openChannels catch block.
IsImplicated(prs, attempt) ==
    prs.pubkey = None \/ prs.pubkey = attempt.pubkey

RECURSIVE RejectImplicated(_, _, _)
RejectImplicated(cands, prs, va) ==
    IF va = <<>> THEN cands
    ELSE RejectImplicated(
             IF IsImplicated(prs, Head(va))
             THEN addRejection(cands, Head(va).pubkey,
                      Rejection(prs.reason, prs.details,
                                prs.minSize, now))
             ELSE cands,
             prs, Tail(va))

\* Results pushed for the implicated attempts alone.
InitiateFailResults_onlyImplicated(prs, va) ==
    LET hit == SelectSeq(va, LAMBDA a : IsImplicated(prs, a)) IN
    [k \in 1..Len(hit) |->
        OpenResult(hit[k].pubkey, FALSE, None, prs.details,
                   prs.reason, prs.minSize)]

InitiateFailResults(prs, va) ==
    [k \in 1..Len(va) |->
        IF IsImplicated(prs, va[k])
        THEN OpenResult(va[k].pubkey, FALSE, None, prs.details,
                        prs.reason, prs.minSize)
        ELSE OpenResult(va[k].pubkey, FALSE, None,
                 <<"Batch cancelled due to node being offline or other failure">>,
                 "batch_failed", Undef)]

\* The openChannels catch block falling through to the funding step.
InitiateFails_fallsThrough ==
    /\ pc = "initiate_wait"
    /\ \E msg \in InitiateErrors :
          /\ parsed' = parseOpenError(msg)
          /\ candidates' = RejectImplicated(candidates, parsed', viableAttempts)
          /\ results' = results \o InitiateFailResults(parsed', viableAttempts)
    /\ pc' = "fund_wait"
    /\ log' = log \o << Answer("openChannels", "-", FALSE),
                        Call("fundPsbt", "-") >>
    /\ UNCHANGED << storeCall, thrown, planEdits, planOptions, plan, dryRun, now, authenticatedLnd, attempts, infoMap,
                    connectedSet, batchStart, probes, verificationResults,
                    viableAttempts, pendingChannels, unsignedPsbt, signedPsbt,
                    failure, cancelIdx, returned, historyFile, nodeStubs, peerLog >>

\* openChannels rejects: results, rejections, history, return.
InitiateFails ==
    /\ pc = "initiate_wait"
    /\ \E msg \in InitiateErrors :
          /\ parsed' = parseOpenError(msg)
          /\ candidates' = RejectImplicated(candidates, parsed', viableAttempts)
          /\ Finish(results \o InitiateFailResults(parsed', viableAttempts),
                    Append(log, Answer("openChannels", "-", FALSE)))
    /\ UNCHANGED << storeCall, thrown, planEdits, planOptions, plan, dryRun, now, authenticatedLnd, attempts, infoMap,
                    connectedSet, batchStart, probes, verificationResults,
                    viableAttempts, pendingChannels, unsignedPsbt, signedPsbt,
                    failure, cancelIdx, nodeStubs, peerLog >>

FailedResults(va, step, prs) ==
    [k \in 1..Len(va) |->
        OpenResult(va[k].pubkey, FALSE, None, <<step>> \o prs.details,
                   "internal_error", Undef)]

\* cancelAllPending leaving its loop after the first stub.
NextCancel_onlyFirst(va, k) ==
    IF k = 1 /\ \E h \in k..Len(va) : va[h].pendingId # None
    THEN CHOOSE h \in k..Len(va) :
             /\ va[h].pendingId # None
             /\ \A g \in k..(h - 1) : va[g].pendingId = None
    ELSE 0

\* cancelAllPending: the first attempt from k on that has a pendingId, 0
\* when there is none.
NextCancel(va, k) ==
    IF \E h \in k..Len(va) : va[h].pendingId # None
    THEN CHOOSE h \in k..Len(va) :
             /\ va[h].pendingId # None
             /\ \A g \in k..(h - 1) : va[g].pendingId = None
    ELSE 0

\* cancelAllPending from attempt k on, then the failed results of the catch
\* block that called it.
CancelFrom(k, step, prs, lg) ==
    LET h == NextCancel(viableAttempts, k) IN
    /\ failure' = step
    /\ cancelIdx' = h
    /\ IF h = 0
       THEN Finish(results \o FailedResults(viableAttempts, step, prs), lg)
       ELSE /\ pc' = "cancel_wait"
            /\ log' = Append(lg, Call("cancelPendingChannel",
                                      viableAttempts[h].pendingId))
            /\ UNCHANGED << results, returned, historyFile >>

FundOk ==
    /\ pc = "fund_wait"
    /\ unsignedPsbt' = "unsigned"
    /\ pc' = "sign_wait"
    /\ log' = log \o << Answer("fundPsbt", "-", TRUE), Call("signPsbt", "-") >>
    /\ UNCHANGED << storeCall, thrown, planEdits, planOptions, plan, dryRun, now, authenticatedLnd, attempts, infoMap,
                    connectedSet, batchStart, probes, verificationResults,
                    viableAttempts, pendingChannels, signedPsbt, parsed, failure,
                    cancelIdx, results, returned, candidates, historyFile,
                    nodeStubs, peerLog >>

\* The fundPsbt catch block falling through to the signing step.
FundFails_fallsThrough ==
    /\ pc = "fund_wait"
    /\ \E msg \in RpcErrors : parsed' = parseOpenError(msg)
    /\ pc' = "sign_wait"
    /\ log' = log \o << Answer("fundPsbt", "-", FALSE), Call("signPsbt", "-") >>
    /\ UNCHANGED << storeCall, thrown, planEdits, planOptions, plan, dryRun, now, authenticatedLnd, attempts, infoMap,
                    connectedSet, batchStart, probes, verificationResults,
                    viableAttempts, pendingChannels, unsignedPsbt, signedPsbt,
                    failure, cancelIdx, results, returned, candidates,
                    historyFile, nodeStubs, peerLog >>

FundFails ==
    /\ pc = "fund_wait"
    /\ \E msg \in RpcErrors :
          /\ parsed' = parseOpenError(msg)
          /\ CancelFrom(1, "Funding failed:", parsed',
                        Append(log, Answer("fundPsbt", "-", FALSE)))
    /\ UNCHANGED << storeCall, thrown, planEdits, planOptions, plan, dryRun, now, authenticatedLnd, attempts, infoMap,
                    connectedSet, batchStart, probes, verificationResults,
                    viableAttempts, pendingChannels, unsignedPsbt, signedPsbt,
                    candidates, nodeStubs, peerLog >>

\* pendingIds = viableAttempts.filter(a => a.pendingId).map(a => a.pendingId)
PendingIds(va) ==
    LET with == SelectSeq(va, LAMBDA a : a.pendingId # None) IN
    [k \in 1..Len(with) |-> with[k].pendingId]

SignOk ==
    /\ pc = "sign_wait"
    /\ signedPsbt' = "signed"
    /\ pc' = "broadcast_wait"
    /\ log' = log \o << Answer("signPsbt", "-", TRUE),
                        Call("fundPendingChannels", "-") >>
    /\ UNCHANGED << storeCall, thrown, planEdits, planOptions, plan, dryRun, now, authenticatedLnd, attempts, infoMap,
                    connectedSet, batchStart, probes, verificationResults,
                    viableAttempts, pendingChannels, unsignedPsbt, parsed, failure,
                    cancelIdx, results, returned, candidates, historyFile,
                    nodeStubs, peerLog >>

SignFails ==
    /\ pc = "sign_wait"
    /\ \E msg \in RpcErrors :
          /\ parsed' = parseOpenError(msg)
          /\ CancelFrom(1, "Signing failed:", parsed',
                        Append(log, Answer("signPsbt", "-", FALSE)))
    /\ UNCHANGED << storeCall, thrown, planEdits, planOptions, plan, dryRun, now, authenticatedLnd, attempts, infoMap,
                    connectedSet, batchStart, probes, verificationResults,
                    viableAttempts, pendingChannels, unsignedPsbt, signedPsbt,
                    candidates, nodeStubs, peerLog >>

\* The node answers one cancelPendingChannel; an error is ignored.
CancelReturn ==
    /\ pc = "cancel_wait"
    /\ \E ok \in BOOLEAN :
          LET id == viableAttempts[cancelIdx].pendingId IN
          /\ nodeStubs' = IF ok THEN [nodeStubs EXCEPT ![id].state = "cancelled"]
                          ELSE nodeStubs
          /\ CancelFrom(cancelIdx + 1, failure, parsed,
                        Append(log, Answer("cancelPendingChannel", id, ok)))
    /\ UNCHANGED << storeCall, thrown, planEdits, planOptions, parsed, plan, dryRun, now, authenticatedLnd, attempts, infoMap,
                    connectedSet, batchStart, probes, verificationResults,
                    viableAttempts, pendingChannels, unsignedPsbt, signedPsbt,
                    candidates, peerLog >>

SuccessResults(va) ==
    [k \in 1..Len(va) |->
        OpenResult(va[k].pubkey, TRUE, va[k].pendingId, <<>>, None, Undef)]

Funded(stubs, ids) ==
    [id \in DOMAIN stubs |->
        IF \E k \in 1..Len(ids) : ids[k] = id
        THEN [stubs[id] EXCEPT !.state = "funded"] ELSE stubs[id]]

BroadcastOk ==
    /\ pc = "broadcast_wait"
    /\ nodeStubs' = Funded(nodeStubs, PendingIds(viableAttempts))
    /\ Finish(results \o SuccessResults(viableAttempts),
              Append(log, Answer("fundPendingChannels", "-", TRUE)))
    /\ UNCHANGED << storeCall, thrown, planEdits, planOptions, plan, dryRun, now, authenticatedLnd, attempts, infoMap,
                    connectedSet, batchStart, probes, verificationResults,
                    viableAttempts, pendingChannels, unsignedPsbt, signedPsbt,
                    parsed, failure, cancelIdx, candidates, peerLog >>

\* The broadcast catch block recording rejections as the openChannels one does.
BroadcastFails_rejects ==
    /\ pc = "broadcast_wait"
    /\ \E sent \in BOOLEAN :
          nodeStubs' = IF sent THEN Funded(nodeStubs, PendingIds(viableAttempts))
                       ELSE nodeStubs
    /\ \E msg \in RpcErrors :
          /\ parsed' = parseOpenError(msg)
          /\ candidates' = RejectImplicated(candidates, parsed', viableAttempts)
          /\ Finish(results \o FailedResults(viableAttempts,
                                              "Broadcast failed:", parsed'),
                    Append(log, Answer("fundPendingChannels", "-", FALSE)))
    /\ UNCHANGED << storeCall, thrown, planEdits, planOptions, plan, dryRun, now, authenticatedLnd, attempts, infoMap,
                    connectedSet, batchStart, probes, verificationResults,
                    viableAttempts, pendingChannels, unsignedPsbt, signedPsbt,
                    failure, cancelIdx, peerLog >>

\* The broadcast catch block cancelling the stubs as the two before it do.
BroadcastFails_cancels ==
    /\ pc = "broadcast_wait"
    /\ \E sent \in BOOLEAN :
          nodeStubs' = IF sent THEN Funded(nodeStubs, PendingIds(viableAttempts))
                       ELSE nodeStubs
    /\ \E msg \in RpcErrors :
          /\ parsed' = parseOpenError(msg)
          /\ CancelFrom(1, "Broadcast failed:", parsed',
                        Append(log, Answer("fundPendingChannels", "-", FALSE)))
    /\ UNCHANGED << storeCall, thrown, planEdits, planOptions, plan, dryRun, now, authenticatedLnd, attempts, infoMap,
                    connectedSet, batchStart, probes, verificationResults,
                    viableAttempts, pendingChannels, unsignedPsbt, signedPsbt,
                    candidates, peerLog >>

\* fundPendingChannels rejects; the transaction may be out all the same.
BroadcastFails ==
    /\ pc = "broadcast_wait"
    /\ \E sent \in BOOLEAN :
          nodeStubs' = IF sent THEN Funded(nodeStubs, PendingIds(viableAttempts))
                       ELSE nodeStubs
    /\ \E msg \in RpcErrors :
          /\ parsed' = parseOpenError(msg)
          /\ Finish(results \o FailedResults(viableAttempts,
                                              "Broadcast failed:", parsed'),
                    Append(log, Answer("fundPendingChannels", "-", FALSE)))
    /\ UNCHANGED << storeCall, thrown, planEdits, planOptions, plan, dryRun, now, authenticatedLnd, attempts, infoMap,
                    connectedSet, batchStart, probes, verificationResults,
                    viableAttempts, pendingChannels, unsignedPsbt, signedPsbt,
                    failure, cancelIdx, candidates, peerLog >>

Next ==
    \/ StartThrows
    \/ Start
    \/ PeersThrows
    \/ InfoReturn
    \/ ConnectReturn
    \/ InitiateOk
    \/ InitiateFails
    \/ FundOk
    \/ FundFails
    \/ SignOk
    \/ SignFails
    \/ CancelReturn
    \/ BroadcastOk
    \/ BroadcastFails

Spec == Init /\ [][Next]_vars

\* The run followed through VERIFY, up to its openChannels call or its return.
VerifyNext ==
    \/ StartThrows
    \/ Start
    \/ PeersThrows
    \/ InfoReturn
    \/ ConnectReturn

VerifySpec == VerifyInit /\ [][VerifyNext]_vars

\* ------------------------------------------------ executePlanWithFallback
\* executePlanWithFallback awaits executePlan and, when it rejects, opens
\* the planned channels one by one with openChannel.
FallbackPlans == {p \in Plans : Len(p.channels) <= MaxFallbackPlan}

FallbackInit == Init /\ plan \in FallbackPlans

\* `${result.transaction_id}:${result.transaction_vout}`
FundingOutpoint(pubkey) ==
    CASE pubkey = "02aa" -> "tx_a:0"
      [] pubkey = "03bb" -> "tx_b:0"
      [] pubkey = "02cc" -> "tx_c:0"
      [] OTHER           -> "tx_d:0"

\* fundPendingChannels answers, the results are pushed, and the write of
\* the history file by saveHistory throws: executePlan rejects.
HistoryWriteThrows ==
    /\ pc = "broadcast_wait"
    /\ \E ok \in BOOLEAN, sent \in BOOLEAN :
          /\ nodeStubs' = IF ok \/ sent
                          THEN Funded(nodeStubs, PendingIds(viableAttempts))
                          ELSE nodeStubs
          /\ IF ok
             THEN /\ parsed' = parsed
                  /\ results' = results \o SuccessResults(viableAttempts)
             ELSE \E msg \in RpcErrors :
                      /\ parsed' = parseOpenError(msg)
                      /\ results' = results \o FailedResults(
                             viableAttempts, "Broadcast failed:", parsed')
          /\ log' = Append(log, Answer("fundPendingChannels", "-", ok))
    /\ pc' = "thrown"
    /\ UNCHANGED << storeCall, thrown, planEdits, planOptions, plan, dryRun,
                    now, authenticatedLnd, attempts, infoMap, connectedSet,
                    batchStart, probes, verificationResults, viableAttempts,
                    pendingChannels, unsignedPsbt, signedPsbt, failure,
                    cancelIdx, returned, candidates, historyFile, peerLog >>

\* The catch block's own connectLnd() throws: executePlanWithFallback
\* rejects.
FallbackThrows ==
    /\ pc = "thrown"
    /\ ~authenticatedLnd
    /\ pc' = "rejected"
    /\ UNCHANGED << storeCall, thrown, planEdits, planOptions, plan, dryRun,
                    now, authenticatedLnd, attempts, infoMap, connectedSet,
                    batchStart, probes, verificationResults, viableAttempts,
                    pendingChannels, unsignedPsbt, signedPsbt, parsed,
                    failure, cancelIdx, results, returned, candidates,
                    historyFile, nodeStubs, log, peerLog >>

\* The catch block: a new results array, and the first openChannel call.
FallbackStart ==
    /\ pc = "thrown"
    /\ authenticatedLnd' = TRUE
    /\ IF plan.channels = <<>>
       THEN Finish(<<>>, log)
       ELSE /\ results' = <<>>
            /\ pc' = "fallback_wait"
            /\ log' = Append(log, Call("openChannel", plan.channels[1].pubkey))
            /\ UNCHANGED << returned, historyFile >>
    /\ UNCHANGED << storeCall, thrown, planEdits, planOptions, plan, dryRun,
                    now, attempts, infoMap, connectedSet, batchStart, probes,
                    verificationResults, viableAttempts, pendingChannels,
                    unsignedPsbt, signedPsbt, parsed, failure, cancelIdx,
                    candidates, nodeStubs, peerLog >>

\* The node answers one openChannel: a success result, or a failed one and
\* a rejection; then the next call, or the history record and the return.
OpenChannelReturn ==
    /\ pc = "fallback_wait"
    /\ LET k == Len(results) + 1
           pubkey == plan.channels[k].pubkey
           Continue(res, lg) ==
               IF k = Len(plan.channels)
               THEN Finish(res, lg)
               ELSE /\ results' = res
                    /\ pc' = "fallback_wait"
                    /\ log' = Append(lg, Call("openChannel",
                                              plan.channels[k + 1].pubkey))
                    /\ UNCHANGED << returned, historyFile >>
       IN  \/ /\ Continue(Append(results,
                              OpenResult(pubkey, TRUE, FundingOutpoint(pubkey),
                                         <<>>, None, Undef)),
                       Append(log, Answer("openChannel", pubkey, TRUE)))
              /\ UNCHANGED << parsed, candidates >>
           \/ \E msg \in InitiateErrors :
                 /\ parsed' = parseOpenError(msg)
                 /\ candidates' = addRejection(candidates, pubkey,
                        Rejection(parsed'.reason, parsed'.details,
                                  parsed'.minSize, now))
                 /\ Continue(Append(results,
                                 OpenResult(pubkey, FALSE, None,
                                            parsed'.details, parsed'.reason,
                                            parsed'.minSize)),
                             Append(log, Answer("openChannel", pubkey, FALSE)))
    /\ UNCHANGED << storeCall, thrown, planEdits, planOptions, plan, dryRun,
                    now, authenticatedLnd, attempts, infoMap, connectedSet,
                    batchStart, probes, verificationResults, viableAttempts,
                    pendingChannels, unsignedPsbt, signedPsbt, failure,
                    cancelIdx, nodeStubs, peerLog >>

FallbackNext ==
    \/ Next
    \/ HistoryWriteThrows
    \/ FallbackThrows
    \/ FallbackStart
    \/ OpenChannelReturn

FallbackSpec == FallbackInit /\ [][FallbackNext]_vars


\* ------------------------------------------------------- rejection policy
\* The entry of one reason; cooldownDays is Undef where the entry has none.
RejectionPolicy(reason) ==
    CASE reason = "min_channel_size"  -> [retryable |-> TRUE, cooldownDays |-> Undef]
      [] reason = "no_anchors"        -> [retryable |-> FALSE, cooldownDays |-> Undef]
      [] reason = "failed_to_connect" -> [retryable |-> TRUE, cooldownDays |-> 1]
      [] reason = "not_online"        -> [retryable |-> TRUE, cooldownDays |-> 7]
      [] reason = "no_address"        -> [retryable |-> FALSE, cooldownDays |-> Undef]
      [] reason = "rejected"          -> [retryable |-> FALSE, cooldownDays |-> Undef]
      [] reason = "no_routing"        -> [retryable |-> FALSE, cooldownDays |-> Undef]
      [] reason = "custom_requirements" -> [retryable |-> FALSE, cooldownDays |-> Undef]
      [] reason = "coop_close"        -> [retryable |-> FALSE, cooldownDays |-> Undef]
      [] reason = "batch_failed"      -> [retryable |-> TRUE, cooldownDays |-> 0]
      [] reason = "internal_error"    -> [retryable |-> TRUE, cooldownDays |-> 0]

ConfiguredReasons ==
    {"min_channel_size", "no_anchors", "failed_to_connect", "not_online",
     "no_address", "rejected", "no_routing", "custom_requirements",
     "coop_close", "batch_failed", "internal_error"}

\* The table with no_address made retryable after a day, like
\* failed_to_connect.
REJECTION_CONFIG_noAddressRetryable ==
    [reason \in ConfiguredReasons |->
        IF reason = "no_address" THEN [retryable |-> TRUE, cooldownDays |-> 1]
        ELSE RejectionPolicy(reason)]

REJECTION_CONFIG == [reason \in ConfiguredReasons |-> RejectionPolicy(reason)]

\* The union type RejectionReason.
RejectionReason == DOMAIN REJECTION_CONFIG

ANCHOR_RESERVE == 2500

\* ---------------------------------------------------------------- planner
\* The for loop of isEligible over the rejections, in list order, at time t
\* (Date.now(), in ms).  REJECTION_CONFIG[reason] is undefined for a reason
\* outside the table, and reading config.retryable then throws a TypeError.
\* The cooldown counted from one second after it has run out.
InCooldown_strictlyAfter(config, age) ==
    /\ config.cooldownDays # Undef
    /\ config.cooldownDays > 0
    /\ age <= config.cooldownDays * 24 * 60 * 60 * 1000

\* "Still in cooldown": the policy has a positive cooldown and the rejection
\* is younger than it.
InCooldown(config, age) ==
    /\ config.cooldownDays # Undef
    /\ config.cooldownDays > 0
    /\ age < config.cooldownDays * 24 * 60 * 60 * 1000

\* The loop deciding on its first rejection alone.
CheckRejections_firstOnly(rejections, t) ==
    IF rejections = <<>> THEN "true"
    ELSE LET rejection == Head(rejections) IN
         IF rejection.reason \notin DOMAIN REJECTION_CONFIG THEN "TypeError"
         ELSE LET config == REJECTION_CONFIG[rejection.reason] IN
              IF ~config.retryable THEN "false"
              ELSE IF InCooldown(config, t - rejection.date) THEN "false"
              ELSE "true"

\* The for loop of isEligible over the rejections, in list order, at time t
\* (Date.now(), in ms).  REJECTION_CONFIG[reason] is undefined for a reason
\* outside the table, and reading config.retryable then throws a TypeError.
RECURSIVE CheckRejections(_, _)
CheckRejections(rejections, t) ==
    IF rejections = <<>> THEN "true"
    ELSE LET rejection == Head(rejections) IN
         IF rejection.reason \notin DOMAIN REJECTION_CONFIG THEN "TypeError"
         ELSE LET config == REJECTION_CONFIG[rejection.reason] IN
              IF ~config.retryable THEN "false"
              ELSE IF InCooldown(config, t - rejection.date) THEN "false"
              ELSE CheckRejections(Tail(rejections), t)

\* The open-channel test made after the "no rejections" shortcut.
isEligible_openCheckLate(candidate, openPeerPubkeys) ==
    IF Len(candidate.rejections) = 0 THEN "true"
    ELSE IF candidate.pubkey \in openPeerPubkeys THEN "false"
    ELSE CheckRejections(candidate.rejections, now)

\* isEligible(candidate, openPeerPubkeys): "true", "false", or "TypeError"
\* when the call throws.  An undefined openPeerPubkeys is the empty set.
isEligible(candidate, openPeerPubkeys) ==
    IF candidate.pubkey \in openPeerPubkeys THEN "false"
    ELSE IF Len(candidate.rejections) = 0 THEN "true"
    ELSE CheckRejections(candidate.rejections, now)

\* The learned minimum left out of the size.
getEffectiveMinimum_defaultOnly(candidate, defaultSize) ==
    defaultSize

\* Math.max(candidate.minChannelSize ?? 0, defaultSize)
getEffectiveMinimum(candidate, defaultSize) ==
    Max(IF candidate.minChannelSize = Undef THEN 0 ELSE candidate.minChannelSize,
        defaultSize)

SourcesInclude(candidate, source) ==
    \E k \in 1..Len(candidate.sources) : candidate.sources[k] = source

\* history.reduce((sum, h) => sum + (h.feesEarned ?? 0), 0)
RECURSIVE FeesEarned(_)
FeesEarned(history) ==
    IF history = <<>> THEN 0
    ELSE (IF Head(history).feesEarned = Undef THEN 0 ELSE Head(history).feesEarned)
         + FeesEarned(Tail(history))

\* The comparator with the fees compared before the manual tag.
CompareSignal_feesFirst(a, b) ==
    LET aManual == SourcesInclude(a, "manual")
        bManual == SourcesInclude(b, "manual")
        aFees == FeesEarned(a.history)
        bFees == FeesEarned(b.history)
    IN  IF aFees > bFees THEN -1
        ELSE IF aFees < bFees THEN 1
        ELSE IF aManual /\ ~bManual THEN -1
        ELSE IF ~aManual /\ bManual THEN 1
        ELSE IF Len(a.sources) > Len(b.sources) THEN -1
        ELSE IF Len(a.sources) < Len(b.sources) THEN 1
        ELSE b.addedAt - a.addedAt

\* The comparator of sortCandidatesBySignal: negative when a comes first.
CompareSignal(a, b) ==
    LET aManual == SourcesInclude(a, "manual")
        bManual == SourcesInclude(b, "manual")
        aFees == FeesEarned(a.history)
        bFees == FeesEarned(b.history)
        aScore == a.capacitySats * a.channels
        bScore == b.capacitySats * b.channels
    IN  IF aManual /\ ~bManual THEN -1
        ELSE IF ~aManual /\ bManual THEN 1
        ELSE IF aFees > bFees THEN -1
        ELSE IF aFees < bFees THEN 1
        ELSE IF Len(a.sources) > Len(b.sources) THEN -1
        ELSE IF Len(a.sources) < Len(b.sources) THEN 1
        ELSE IF aScore > bScore THEN -1
        ELSE IF aScore < bScore THEN 1
        ELSE b.addedAt - a.addedAt

\* Array.prototype.sort is stable: c goes in front of the first element that
\* must come after it.
InsertBySignal(sorted, c) ==
    LET after == {k \in 1..Len(sorted) : CompareSignal(sorted[k], c) > 0}
        at == IF after = {} THEN Len(sorted) + 1
              ELSE CHOOSE k \in after : \A h \in after : k <= h
    IN  SubSeq(sorted, 1, at - 1) \o <<c>> \o SubSeq(sorted, at, Len(sorted))

RECURSIVE sortCandidatesBySignal(_)
sortCandidatesBySignal(cands) ==
    IF cands = <<>> THEN <<>>
    ELSE InsertBySignal(sortCandidatesBySignal(SubSeq(cands, 1, Len(cands) - 1)),
                        cands[Len(cands)])

\* The loop charging a channel its amount without the anchor reserve.
RECURSIVE Allocate_noReserve(_, _, _, _, _)
Allocate_noReserve(cands, k, remaining, plannedChannels, defaultSize) ==
    IF k > Len(cands)
    THEN [channels |-> plannedChannels, remaining |-> remaining]
    ELSE LET effectiveMin == getEffectiveMinimum(cands[k], defaultSize)
             pushed == Append(plannedChannels,
                              PlannedChannel(cands[k].pubkey, effectiveMin,
                                             effectiveMin > defaultSize))
         IN  IF effectiveMin + ANCHOR_RESERVE > remaining
             THEN Allocate_noReserve(cands, k + 1, remaining, plannedChannels,
                                     defaultSize)
             ELSE IF remaining - effectiveMin < defaultSize + ANCHOR_RESERVE
             THEN [channels |-> pushed, remaining |-> remaining - effectiveMin]
             ELSE Allocate_noReserve(cands, k + 1, remaining - effectiveMin,
                                     pushed, defaultSize)

\* The loop ended at the first candidate that cannot be afforded.
RECURSIVE Allocate_stopsAtUnaffordable(_, _, _, _, _)
Allocate_stopsAtUnaffordable(cands, k, remaining, plannedChannels, defaultSize) ==
    IF k > Len(cands)
    THEN [channels |-> plannedChannels, remaining |-> remaining]
    ELSE LET effectiveMin == getEffectiveMinimum(cands[k], defaultSize)
             requiredAmount == effectiveMin + ANCHOR_RESERVE
             pushed == Append(plannedChannels,
                              PlannedChannel(cands[k].pubkey, effectiveMin,
                                             effectiveMin > defaultSize))
         IN  IF requiredAmount > remaining
             THEN [channels |-> plannedChannels, remaining |-> remaining]
             ELSE IF remaining - requiredAmount < defaultSize + ANCHOR_RESERVE
             THEN [channels |-> pushed, remaining |-> remaining - requiredAmount]
             ELSE Allocate_stopsAtUnaffordable(cands, k + 1,
                                               remaining - requiredAmount,
                                               pushed, defaultSize)

\* The loop without the test that the candidate can be afforded.
RECURSIVE Allocate_takesUnaffordable(_, _, _, _, _)
Allocate_takesUnaffordable(cands, k, remaining, plannedChannels, defaultSize) ==
    IF k > Len(cands)
    THEN [channels |-> plannedChannels, remaining |-> remaining]
    ELSE LET effectiveMin == getEffectiveMinimum(cands[k], defaultSize)
             requiredAmount == effectiveMin + ANCHOR_RESERVE
             pushed == Append(plannedChannels,
                              PlannedChannel(cands[k].pubkey, effectiveMin,
                                             effectiveMin > defaultSize))
         IN  IF remaining - requiredAmount < defaultSize + ANCHOR_RESERVE
             THEN [channels |-> pushed, remaining |-> remaining - requiredAmount]
             ELSE Allocate_takesUnaffordable(cands, k + 1,
                                             remaining - requiredAmount,
                                             pushed, defaultSize)

\* The allocation loop of createPlan from candidate k on.
RECURSIVE Allocate(_, _, _, _, _)
Allocate(cands, k, remaining, plannedChannels, defaultSize) ==
    IF k > Len(cands)
    THEN [channels |-> plannedChannels, remaining |-> remaining]
    ELSE LET effectiveMin == getEffectiveMinimum(cands[k], defaultSize)
             requiredAmount == effectiveMin + ANCHOR_RESERVE
             pushed == Append(plannedChannels,
                              PlannedChannel(cands[k].pubkey, effectiveMin,
                                             effectiveMin > defaultSize))
         IN  IF requiredAmount > remaining
             THEN Allocate(cands, k + 1, remaining, plannedChannels, defaultSize)
             ELSE IF remaining - requiredAmount < defaultSize + ANCHOR_RESERVE
             THEN [channels |-> pushed, remaining |-> remaining - requiredAmount]
             ELSE Allocate(cands, k + 1, remaining - requiredAmount, pushed,
                           defaultSize)

\* plannedChannels.reduce((sum, ch) => sum + ch.amount, 0)
RECURSIVE SumAmounts(_)
SumAmounts(channels) ==
    IF channels = <<>> THEN 0
    ELSE Head(channels).amount + SumAmounts(Tail(channels))

\* createPlan throws when isEligible does, for any candidate of the list.
createPlanThrows(options, stored) ==
    \E k \in 1..Len(stored) :
        isEligible(stored[k], options.openPeerPubkeys) = "TypeError"

\* totalAmount reported as the budget spent, reserves included.
createPlan_totalIsSpent(options, stored) ==
    LET eligible == SelectSeq(stored, LAMBDA c :
                        isEligible(c, options.openPeerPubkeys) = "true")
        fundable == SelectSeq(eligible, LAMBDA c :
                        getEffectiveMinimum(c, options.defaultSize)
                            <= options.maxSize)
        sorted == sortCandidatesBySignal(fundable)
        alloc == Allocate(sorted, 1, options.budget, <<>>, options.defaultSize)
    IN  [createdAt |-> now,
         budget |-> options.budget,
         defaultSize |-> options.defaultSize,
         maxSize |-> options.maxSize,
         channels |-> alloc.channels,
         totalAmount |-> options.budget - alloc.remaining,
         remainingBudget |-> alloc.remaining]

\* createPlan without the filter on maxSize.
createPlan_noSizeFilter(options, stored) ==
    LET eligible == SelectSeq(stored, LAMBDA c :
                        isEligible(c, options.openPeerPubkeys) = "true")
        sorted == sortCandidatesBySignal(eligible)
        alloc == Allocate(sorted, 1, options.budget, <<>>, options.defaultSize)
    IN  [createdAt |-> now,
         budget |-> options.budget,
         defaultSize |-> options.defaultSize,
         maxSize |-> options.maxSize,
         channels |-> alloc.channels,
         totalAmount |-> SumAmounts(alloc.channels),
         remainingBudget |-> alloc.remaining]

createPlan(options, stored) ==
    LET eligible == SelectSeq(stored, LAMBDA c :
                        isEligible(c, options.openPeerPubkeys) = "true")
        fundable == SelectSeq(eligible, LAMBDA c :
                        getEffectiveMinimum(c, options.defaultSize)
                            <= options.maxSize)
        sorted == sortCandidatesBySignal(fundable)
        alloc == Allocate(sorted, 1, options.budget, <<>>, options.defaultSize)
    IN  [createdAt |-> now,
         budget |-> options.budget,
         defaultSize |-> options.defaultSize,
         maxSize |-> options.maxSize,
         channels |-> alloc.channels,
         totalAmount |-> SumAmounts(alloc.channels),
         remainingBudget |-> alloc.remaining]

\* -------------------------------------------------- planner: plan edits
\* The three edits return the plan, or throw an Error whose message is
\* "Candidate ... not found" (CandidateNotFound), "Not enough budget ..."
\* (InsufficientBudget) or "Invalid index ..." (InvalidIndex).  Each yields
\* [error, plan]: error is None and plan the edited plan when the call
\* returns, else plan is as the throw left it.  An amount of Undef is the
\* argument left out.  Indices are those of the code, counted from 0.

\* addToPlan charging the anchor reserve as createPlan does.
addToPlan_chargesReserve(p, stored, pubkey, amount) ==
    LET k == FindCandidate(stored, pubkey) IN
    IF k = 0 THEN [error |-> "CandidateNotFound", plan |-> p]
    ELSE LET effectiveAmount ==
                 IF amount = Undef
                 THEN getEffectiveMinimum(stored[k], p.defaultSize)
                 ELSE amount
         IN  IF effectiveAmount > p.remainingBudget
             THEN [error |-> "InsufficientBudget", plan |-> p]
             ELSE [error |-> None,
                   plan |-> [p EXCEPT
                       !.channels = Append(@,
                           PlannedChannel(stored[k].pubkey, effectiveAmount,
                                          effectiveAmount > p.defaultSize)),
                       !.totalAmount = @ + effectiveAmount,
                       !.remainingBudget = @ - (effectiveAmount + ANCHOR_RESERVE)]]

addToPlan(p, stored, pubkey, amount) ==
    LET k == FindCandidate(stored, pubkey) IN
    IF k = 0 THEN [error |-> "CandidateNotFound", plan |-> p]
    ELSE LET effectiveAmount ==
                 IF amount = Undef
                 THEN getEffectiveMinimum(stored[k], p.defaultSize)
                 ELSE amount
         IN  IF effectiveAmount > p.remainingBudget
             THEN [error |-> "InsufficientBudget", plan |-> p]
             ELSE [error |-> None,
                   plan |-> [p EXCEPT
                       !.channels = Append(@,
                           PlannedChannel(stored[k].pubkey, effectiveAmount,
                                          effectiveAmount > p.defaultSize)),
                       !.totalAmount = @ + effectiveAmount,
                       !.remainingBudget = @ - effectiveAmount]]

removeFromPlan(p, index) ==
    IF index < 0 \/ index >= Len(p.channels)
    THEN [error |-> "InvalidIndex", plan |-> p]
    ELSE LET removed == p.channels[index + 1] IN
         [error |-> None,
          plan |-> [p EXCEPT
              !.channels = SubSeq(@, 1, index) \o SubSeq(@, index + 2, Len(@)),
              !.totalAmount = @ - removed.amount,
              !.remainingBudget = @ + removed.amount]]

\* resizeInPlan writing the channel before it looks at the budget.
resizeInPlan_writesBeforeCheck(p, index, newAmount) ==
    IF index < 0 \/ index >= Len(p.channels)
    THEN [error |-> "InvalidIndex", plan |-> p]
    ELSE LET diff == newAmount - p.channels[index + 1].amount
             written == [p EXCEPT
                 !.channels[index + 1].amount = newAmount,
                 !.channels[index + 1].isMinimumEnforced =
                     newAmount > p.defaultSize]
         IN  IF diff > p.remainingBudget
             THEN [error |-> "InsufficientBudget", plan |-> written]
             ELSE [error |-> None,
                   plan |-> [written EXCEPT
                       !.totalAmount = @ + diff,
                       !.remainingBudget = @ - diff]]

resizeInPlan(p, index, newAmount) ==
    IF index < 0 \/ index >= Len(p.channels)
    THEN [error |-> "InvalidIndex", plan |-> p]
    ELSE LET diff == newAmount - p.channels[index + 1].amount IN
         IF diff > p.remainingBudget
         THEN [error |-> "InsufficientBudget", plan |-> p]
         ELSE [error |-> None,
               plan |-> [p EXCEPT
                   !.channels[index + 1].amount = newAmount,
                   !.channels[index + 1].isMinimumEnforced =
                       newAmount > p.defaultSize,
                   !.totalAmount = @ + diff,
                   !.remainingBudget = @ - diff]]

\* ------------------------------------------------- planner: inputs, steps
DayMs == 24 * 60 * 60 * 1000

ClockStart == 2 * DayMs

\* A stored candidate, with the fields the planner reads.
ChannelCandidate(pubkey, sources, history, capacitySats, channels, addedAt, rejections, minChannelSize) ==
    [pubkey |-> pubkey, sources |-> sources, history |-> history,
     capacitySats |-> capacitySats, channels |-> channels, addedAt |-> addedAt,
     rejections |-> rejections, minChannelSize |-> minChannelSize]

\* Rejections as addRejection stores them: any reason of the table, written
\* two days before ClockStart or, for a reason that can be retried, at
\* ClockStart.
StoredRejections ==
    {r \in {Rejection(reason, <<>>,
                      IF reason = "min_channel_size" THEN 20000 ELSE Undef,
                      date) :
                reason \in RejectionReason, date \in {0, ClockStart}} :
        r.date = 0 \/ REJECTION_CONFIG[r.reason].retryable}

RejectionLists ==
    UNION {[1..n -> StoredRejections] : n \in 0..MaxRejections}

\* minChannelSize as addRejection leaves it for a list of rejections.
LearnedMinimum(rejections) ==
    IF \E k \in 1..Len(rejections) : rejections[k].reason = "min_channel_size"
    THEN 20000 ELSE Undef

\* Stores of one candidate with any rejection list.
EligibilityStores ==
    {<< ChannelCandidate("02aa", <<"manual">>, <<>>, 10, 1, 0, rl,
                         LearnedMinimum(rl)) >> : rl \in RejectionLists}

\* Candidates that differ in signal, learned minimum and rejections.
CandidatePool ==
    { ChannelCandidate("02aa", <<"manual">>, <<>>, 10, 1, 0, <<>>, Undef),
      ChannelCandidate("03bb", <<"graph_distance">>,
                       << [channelId |-> "c1", feesEarned |-> 5] >>, 10, 2, 1,
                       << Rejection("min_channel_size", <<>>, 20000, 0) >>,
                       20000),
      ChannelCandidate("02cc", <<"graph_distance", "force_closed">>, <<>>,
                       10, 3, 2, <<>>, 50000),
      ChannelCandidate("03dd", <<"graph_distance">>, <<>>, 10, 3, 3,
                       << Rejection("failed_to_connect", <<>>, Undef,
                                    ClockStart) >>, Undef),
      ChannelCandidate("02ee", <<"graph_distance">>, <<>>, 40, 3, 4, <<>>,
                       Undef) }

PlanningStores == DistinctSeqs(CandidatePool, MaxCandidates)

Budgets == {0, 12500, 25000, 30000, 35000, 47500, 60000, 100000}

PlanOptions(budget, defaultSize, maxSize, openPeerPubkeys) ==
    [budget |-> budget, defaultSize |-> defaultSize, maxSize |-> maxSize,
     openPeerPubkeys |-> openPeerPubkeys]

PlanOptionsSet ==
    {PlanOptions(b, 10000, m, o) :
        b \in Budgets, m \in {40000, 60000}, o \in {{}, {"02aa"}}}

\* plan before createPlan has returned.
NoPlan == [channels |-> <<>>]

\* The planner is about to be called on a store, with executePlan not begun.
PlannerInit ==
    /\ \/ /\ candidates \in EligibilityStores
          /\ planOptions \in {PlanOptions(12500, 10000, 40000, o) :
                                 o \in {{}, {"02aa"}}}
       \/ /\ candidates \in PlanningStores
          /\ planOptions \in PlanOptionsSet
    /\ plan = NoPlan
    /\ now = ClockStart
    /\ pc = "plan"
    /\ dryRun = FALSE
    /\ authenticatedLnd = FALSE
    /\ attempts = <<>>
    /\ infoMap = <<>>
    /\ connectedSet = {}
    /\ batchStart = 0
    /\ probes = <<>>
    /\ verificationResults = <<>>
    /\ viableAttempts = <<>>
    /\ pendingChannels = <<>>
    /\ unsignedPsbt = None
    /\ signedPsbt = None
    /\ parsed = NoError
    /\ failure = None
    /\ cancelIdx = 0
    /\ results = <<>>
    /\ returned = <<>>
    /\ historyFile = <<>>
    /\ nodeStubs = <<>>
    /\ log = <<>>
    /\ peerLog = [p \in Peers |-> <<>>]
    /\ thrown = NoValue
    /\ planEdits = <<>>
    /\ storeCall = NoCall

\* Time passes before the planner is called.
Tick ==
    /\ pc = "plan"
    /\ now < ClockStart + MaxTicks * (DayMs \div 2)
    /\ now' = now + DayMs \div 2
    /\ UNCHANGED << plan, dryRun, pc, authenticatedLnd, attempts, infoMap,
                    connectedSet, batchStart, probes, verificationResults,
                    viableAttempts, pendingChannels, unsignedPsbt, signedPsbt,
                    parsed, failure, cancelIdx, results, returned, candidates,
                    historyFile, nodeStubs, log, peerLog, planOptions,
                    thrown, planEdits, storeCall >>

\* createPlan(options) over the stored candidates returns, or throws.
CreatePlan ==
    /\ pc = "plan"
    /\ IF createPlanThrows(planOptions, candidates)
       THEN pc' = "thrown" /\ plan' = plan
       ELSE pc' = "planned" /\ plan' = createPlan(planOptions, candidates)
    /\ UNCHANGED << dryRun, now, authenticatedLnd, attempts, infoMap,
                    connectedSet, batchStart, probes, verificationResults,
                    viableAttempts, pendingChannels, unsignedPsbt, signedPsbt,
                    parsed, failure, cancelIdx, results, returned, candidates,
                    historyFile, nodeStubs, log, peerLog, planOptions,
                    thrown, planEdits, storeCall >>

PlannerNext ==
    \/ Tick
    \/ CreatePlan

PlannerSpec == PlannerInit /\ [][PlannerNext]_vars

\* ------------------------------------------------------- plan edit session
\* Calls of addToPlan, removeFromPlan and resizeInPlan on a plan createPlan
\* has returned over the store, as the plan command makes them one after
\* another; a throw is caught and the session goes on with the plan as it
\* is.  The arguments are drawn wider than the command passes them: it
\* refuses an index out of range itself and never passes an amount to
\* addToPlan.
EditStores == {s \in PlanningStores : Len(s) = 2}

EditOptions == {PlanOptions(b, 10000, 60000, {}) : b \in {35000, 100000}}

\* Pubkeys the operator may type: stored ones and others.
EditPubkeys == {c.pubkey : c \in CandidatePool}

EditAmounts == {Undef, 20000}

EditIndices == (-1)..Len(plan.channels)

ResizeAmounts == {5000, 90000}

\* One entry of planEdits: the call, how it ended, the totals before it and
\* the channel it took out.
PlanEdit(op, pubkey, index, amount, r) ==
    [op |-> op, pubkey |-> pubkey, index |-> index, amount |-> amount,
     error |-> r.error,
     totalBefore |-> plan.totalAmount,
     remainingBefore |-> plan.remainingBudget,
     removed |-> IF op = "remove" /\ r.error = None
                 THEN plan.channels[index + 1]
                 ELSE PlannedChannel(None, Undef, FALSE)]

EditInit ==
    /\ candidates \in EditStores
    /\ planOptions \in EditOptions
    /\ now = ClockStart
    /\ plan = createPlan(planOptions, candidates)
    /\ pc = "planned"
    /\ dryRun = FALSE
    /\ authenticatedLnd = FALSE
    /\ attempts = <<>>
    /\ infoMap = <<>>
    /\ connectedSet = {}
    /\ batchStart = 0
    /\ probes = <<>>
    /\ verificationResults = <<>>
    /\ viableAttempts = <<>>
    /\ pendingChannels = <<>>
    /\ unsignedPsbt = None
    /\ signedPsbt = None
    /\ parsed = NoError
    /\ failure = None
    /\ cancelIdx = 0
    /\ results = <<>>
    /\ returned = <<>>
    /\ historyFile = <<>>
    /\ nodeStubs = <<>>
    /\ log = <<>>
    /\ peerLog = [p \in Peers |-> <<>>]
    /\ thrown = NoValue
    /\ planEdits = <<>>
    /\ storeCall = NoCall

AddToPlan ==
    /\ pc = "planned"
    /\ Len(planEdits) < MaxEdits
    /\ \E pubkey \in EditPubkeys, amount \in EditAmounts :
          LET r == addToPlan(plan, candidates, pubkey, amount) IN
          /\ plan' = r.plan
          /\ planEdits' = Append(planEdits,
                                 PlanEdit("add", pubkey, Undef, amount, r))
    /\ UNCHANGED << dryRun, now, pc, authenticatedLnd, attempts, infoMap,
                    connectedSet, batchStart, probes, verificationResults,
                    viableAttempts, pendingChannels, unsignedPsbt, signedPsbt,
                    parsed, failure, cancelIdx, results, returned, candidates,
                    historyFile, nodeStubs, log, peerLog, planOptions,
                    thrown, storeCall >>

RemoveFromPlan ==
    /\ pc = "planned"
    /\ Len(planEdits) < MaxEdits
    /\ \E index \in EditIndices :
          LET r == removeFromPlan(plan, index) IN
          /\ plan' = r.plan
          /\ planEdits' = Append(planEdits,
                                 PlanEdit("remove", None, index, Undef, r))
    /\ UNCHANGED << dryRun, now, pc, authenticatedLnd, attempts, infoMap,
                    connectedSet, batchStart, probes, verificationResults,
                    viableAttempts, pendingChannels, unsignedPsbt, signedPsbt,
                    parsed, failure, cancelIdx, results, returned, candidates,
                    historyFile, nodeStubs, log, peerLog, planOptions,
                    thrown, storeCall >>

ResizeInPlan ==
    /\ pc = "planned"
    /\ Len(planEdits) < MaxEdits
    /\ \E index \in EditIndices, newAmount \in ResizeAmounts :
          LET r == resizeInPlan(plan, index, newAmount) IN
          /\ plan' = r.plan
          /\ planEdits' = Append(planEdits,
                                 PlanEdit("resize", None, index, newAmount, r))
    /\ UNCHANGED << dryRun, now, pc, authenticatedLnd, attempts, infoMap,
                    connectedSet, batchStart, probes, verificationResults,
                    viableAttempts, pendingChannels, unsignedPsbt, signedPsbt,
                    parsed, failure, cancelIdx, results, returned, candidates,
                    historyFile, nodeStubs, log, peerLog, planOptions,
                    thrown, storeCall >>

EditNext ==
    \/ AddToPlan
    \/ RemoveFromPlan
    \/ ResizeInPlan

EditSpec == EditInit /\ [][EditNext]_vars

\* -------------------------------------------------------- candidate store
\* Calls of upsertCandidate and addRejection on candidates.json, as the
\* add and reject commands, the collectors and executePlan make them.
ChannelHistory(channelId, feesEarned) ==
    [channelId |-> channelId, feesEarned |-> feesEarned]

\* Histories a collector hands in: none, or channel 1 read again with
\* other figures than the stored ones and channel 2.
IncomingHistories ==
    {<<>>, << ChannelHistory("1", 7), ChannelHistory("2", 0) >>}

\* Rejections handed to addRejection: a minimum reported, the reject
\* command without --min-size, another reason.
IncomingRejections ==
    {Rejection("min_channel_size", <<>>, 1000, ClockStart),
     Rejection("min_channel_size", <<>>, 5000, ClockStart),
     Rejection("min_channel_size", <<>>, Undef, ClockStart),
     Rejection("rejected", <<>>, Undef, ClockStart)}

\* Rejection lists an upserted candidate carries.
IncomingRejectionLists ==
    {<<>>,
     << Rejection("min_channel_size", <<>>, 1000, ClockStart),
        Rejection("min_channel_size", <<>>, 5000, ClockStart) >>}

\* Candidates handed to upsertCandidate: 02aa found again with other
\* sources, metrics, history and rejections and a newer addedAt; 02cc new.
IncomingCandidates ==
    {ChannelCandidate("02aa", sources, history, 1000, channels, ClockStart,
                      rejections, MaxMinimum(rejections)) :
        sources \in {<<"manual">>, <<"graph_distance">>},
        history \in IncomingHistories, channels \in {10, 20},
        rejections \in IncomingRejectionLists}
    \cup {ChannelCandidate("02cc", <<"graph_distance">>, <<>>, 1000, 10,
                           ClockStart, <<>>, Undef)}

\* The store the calls start from.
StoredCandidates ==
    << ChannelCandidate("02aa", <<"manual">>, << ChannelHistory("1", 0) >>,
                        1000, 10, 0, <<>>, Undef),
       ChannelCandidate("03bb", <<"graph_distance">>,
                        << ChannelHistory("c1", 5) >>, 10, 2, 1,
                        << Rejection("min_channel_size", <<>>, 20000, 0) >>,
                        20000) >>

\* Pubkeys addRejection is called with: one stored, one not.
RejectedPubkeys == {"02aa", "03dd"}

UpsertCall(candidate) == [op |-> "upsertCandidate", candidate |-> candidate]

RejectCall(pubkey, rejection) ==
    [op |-> "addRejection", pubkey |-> pubkey, rejection |-> rejection]

StoreInit ==
    /\ candidates = StoredCandidates
    /\ storeCall = NoCall
    /\ pc = "store"
    /\ thrown = NoValue
    /\ parsed = NoError
    /\ plan = NoPlan
    /\ planOptions = NoOptions
    /\ planEdits = <<>>
    /\ now = ClockStart
    /\ dryRun = FALSE
    /\ authenticatedLnd = FALSE
    /\ attempts = <<>>
    /\ infoMap = <<>>
    /\ connectedSet = {}
    /\ batchStart = 0
    /\ probes = <<>>
    /\ verificationResults = <<>>
    /\ viableAttempts = <<>>
    /\ pendingChannels = <<>>
    /\ unsignedPsbt = None
    /\ signedPsbt = None
    /\ failure = None
    /\ cancelIdx = 0
    /\ results = <<>>
    /\ returned = <<>>
    /\ historyFile = <<>>
    /\ nodeStubs = <<>>
    /\ log = <<>>
    /\ peerLog = [p \in Peers |-> <<>>]

\* No stored candidate holds more than MaxRejections rejections.
WithinStore(cands) ==
    \A k \in 1..Len(cands) : Len(cands[k].rejections) <= MaxRejections

\* upsertCandidate(candidate) returns.
UpsertCandidate ==
    /\ pc = "store"
    /\ \E candidate \in IncomingCandidates :
          /\ WithinStore(upsertCandidate(candidates, candidate))
          /\ candidates' = upsertCandidate(candidates, candidate)
          /\ storeCall' = UpsertCall(candidate)
    /\ UNCHANGED << plan, dryRun, now, pc, authenticatedLnd, attempts,
                    infoMap, connectedSet, batchStart, probes,
                    verificationResults, viableAttempts, pendingChannels,
                    unsignedPsbt, signedPsbt, parsed, failure, cancelIdx,
                    results, returned, historyFile, nodeStubs, log, peerLog,
                    planOptions, thrown, planEdits >>

\* addRejection(pubkey, rejection) returns.
AddRejection ==
    /\ pc = "store"
    /\ \E pubkey \in RejectedPubkeys, rejection \in IncomingRejections :
          /\ WithinStore(addRejection(candidates, pubkey, rejection))
          /\ candidates' = addRejection(candidates, pubkey, rejection)
          /\ storeCall' = RejectCall(pubkey, rejection)
    /\ UNCHANGED << plan, dryRun, now, pc, authenticatedLnd, attempts,
                    infoMap, connectedSet, batchStart, probes,
                    verificationResults, viableAttempts, pendingChannels,
                    unsignedPsbt, signedPsbt, parsed, failure, cancelIdx,
                    results, returned, historyFile, nodeStubs, log, peerLog,
                    planOptions, thrown, planEdits >>

StoreNext ==
    \/ UpsertCandidate
    \/ AddRejection

StoreSpec == StoreInit /\ [][StoreNext]_vars

\* ------------------------------------------------------- error classifier
\* parseOpenError on its own, called once with a value thrown by the node
\* client.
PeerMinimum == "chan size of 100000sat is below min chan size of 200000sat"

RemoteCanceled == "remote canceled funding, possibly timed out"

PendingExceeded == "Number of pending channels exceed maximum"

\* The peer's minimum is met by the funding but not by the capacity left
\* after the commitment overhead.
FundingShortfall == "funding 1000000sat, channel capacity is 979056sat, which is below 1000000sat"

\* Pieces of the messages the node answers with.
Fragments ==
    {PeerMinimum, RemoteCanceled, PendingExceeded, FundingShortfall,
     "peer is not online",
     "at least", "cherry", "err", "minimum", "5", "anchor", "disconnected",
     "02aa", "03BB", HexRun}

Messages == UNION {[1..n -> Fragments] : n \in 0..MaxTokens}

\* A one-field object, and the details object of an ln-service error array:
\* {err: {details: <message>}}.
ThrownObjects ==
    {ObjectValue(<< Field(key, StringValue(<< f >>)) >>) :
        key \in {"some_field", "err"}, f \in Fragments}

ErrorDetails ==
    {ObjectValue(<< Field("err", ObjectValue(
                     << Field("details", StringValue(m)) >>)) >>) :
        m \in {m \in Messages : Len(m) <= 2}}

\* ln-service rejects with [code, message, details?].
ThrownArrays ==
    {ArrayValue(<< StringValue(<< "503" >>),
                   StringValue(<< "UnexpectedErrorOpeningChannels" >>) >>
                \o rest) :
        rest \in {<<>>} \cup {<< d >> : d \in ErrorDetails}}

ThrownValues ==
    {StringValue(m) : m \in Messages} \cup {ErrorValue(m) : m \in Messages}
    \cup ThrownObjects \cup ThrownArrays

ParserInit ==
    /\ thrown \in ThrownValues
    /\ parsed = NoError
    /\ pc = "parse"
    /\ plan = NoPlan
    /\ planOptions = NoOptions
    /\ planEdits = <<>>
    /\ storeCall = NoCall
    /\ candidates = <<>>
    /\ now = 1
    /\ dryRun = FALSE
    /\ authenticatedLnd = FALSE
    /\ attempts = <<>>
    /\ infoMap = <<>>
    /\ connectedSet = {}
    /\ batchStart = 0
    /\ probes = <<>>
    /\ verificationResults = <<>>
    /\ viableAttempts = <<>>
    /\ pendingChannels = <<>>
    /\ unsignedPsbt = None
    /\ signedPsbt = None
    /\ failure = None
    /\ cancelIdx = 0
    /\ results = <<>>
    /\ returned = <<>>
    /\ historyFile = <<>>
    /\ nodeStubs = <<>>
    /\ log = <<>>
    /\ peerLog = [p \in Peers |-> <<>>]

\* parseOpenError(thrown) returns.
ParseOpenError ==
    /\ pc = "parse"
    /\ parsed' = parseOpenError(ErrorMessage(thrown))
    /\ pc' = "parsed"
    /\ UNCHANGED << plan, dryRun, now, authenticatedLnd, attempts, infoMap,
                    connectedSet, batchStart, probes, verificationResults,
                    viableAttempts, pendingChannels, unsignedPsbt, signedPsbt,
                    failure, cancelIdx, results, returned, candidates,
                    historyFile, nodeStubs, log, peerLog, planOptions,
                    thrown, planEdits, storeCall >>

ParserNext == ParseOpenError

ParserSpec == ParserInit /\ [][ParserNext]_vars

TypeOK ==
    /\ pc \in {"store", "plan", "planned", "parse", "parsed", "start", "info_wait", "verify_wait", "initiate_wait",
               "fund_wait", "sign_wait", "cancel_wait", "broadcast_wait",
               "done", "thrown", "fallback_wait", "rejected"}
    /\ Len(results) <= Len(plan.channels)

\* The iteration cap of the convergence loop.
MAX_ITERATIONS == 5

\* ------------------------------------------------------------- properties
Called(op) == \E k \in 1..Len(log) : log[k].op = op /\ log[k].ev = "call"

Answered(op, ev) == \E k \in 1..Len(log) : log[k].op = op /\ log[k].ev = ev

Calls(op) == {k \in 1..Len(log) : log[k].op = op /\ log[k].ev = "call"}

ViablePubkeys == {viableAttempts[k].pubkey : k \in 1..Len(viableAttempts)}

ResultsOf(pubkey) == {k \in 1..Len(results) : results[k].pubkey = pubkey}

VerifyOver == pc \notin {"start", "info_wait", "verify_wait", "thrown"}

VerifyFailures == SelectSeq(verificationResults, LAMBDA r : ~r.success)

\* Every viable attempt has exactly one result, a failed one.
AllViableFailed ==
    \A p \in ViablePubkeys :
        /\ Cardinality(ResultsOf(p)) = 1
        /\ \A k \in ResultsOf(p) : ~results[k].success

\* C1: when fundPsbt or signPsbt fails after openChannels succeeded, a
\* cancelPendingChannel call is made for every stub the node opened (whatever
\* the earlier cancels answered), the run returns instead of throwing, every
\* attempt that passed INITIATE has a failed result, one history record is
\* written, and no later funding step is called.
C1_FundOrSignFailureCancelsAll ==
    (Answered("fundPsbt", "err") \/ Answered("signPsbt", "err")) =>
        /\ pc \in {"cancel_wait", "done"}
        /\ ~Called("fundPendingChannels")
        /\ Answered("fundPsbt", "err") => ~Called("signPsbt")
        /\ pc = "done" =>
              /\ \A id \in DOMAIN nodeStubs :
                    \E k \in Calls("cancelPendingChannel") : log[k].arg = id
              /\ AllViableFailed
              /\ Len(historyFile) = 1
              /\ returned = results

\* Two stubs, the first cancel fails, the second is still attempted.
C1_Witness ==
    /\ pc = "done"
    /\ Answered("signPsbt", "err")
    /\ Len(viableAttempts) = 2
    /\ \E k \in 1..Len(log) :
          /\ log[k].op = "cancelPendingChannel" /\ log[k].ev = "err"
          /\ log[k].arg = viableAttempts[1].pendingId
          /\ \E h \in (k + 1)..Len(log) :
                /\ log[h].op = "cancelPendingChannel" /\ log[h].ev = "call"
                /\ log[h].arg = viableAttempts[2].pendingId

StepOps == << "openChannels", "fundPsbt", "signPsbt", "fundPendingChannels" >>

\* C2: openChannels, fundPsbt, signPsbt and fundPendingChannels are each
\* called at most once per run, and a step is called only after the step
\* before it has answered with success.
C2_FundingStepsSequential ==
    \A n \in 1..Len(StepOps) :
        /\ Cardinality(Calls(StepOps[n])) <= 1
        /\ \A k \in Calls(StepOps[n]) :
              /\ n > 1 => \E h \in 1..(k - 1) :
                              log[h].op = StepOps[n - 1] /\ log[h].ev = "ok"
              /\ \A h \in 1..(k - 1) : \A m \in 1..Len(StepOps) :
                    (log[h].op = StepOps[m] /\ log[h].ev = "call") =>
                        \E g \in (h + 1)..(k - 1) :
                            log[g].op = StepOps[m] /\ log[g].ev # "call"

C2_Witness == pc = "done" /\ Answered("fundPendingChannels", "ok")

\* C3 (as claimed): once a peer has failed VERIFY the engine has re-planned,
\* so the plan it goes on with no longer holds the failed peer.
C3_FailedPeerLeavesPlan ==
    VerifyOver =>
        \A k \in 1..Len(VerifyFailures) :
            VerifyFailures[k].attempt.pubkey \notin PlanPubkeys

\* C4 (as claimed): an openChannels failure that names no peer leaves the
\* stored rejection lists of the batch's peers as they were.
C4_BatchWideFailureRejectsNobody ==
    (pc = "done" /\ Answered("openChannels", "err") /\ parsed.pubkey = None) =>
        \A p \in ViablePubkeys :
            RejectionsOf(candidates, p) = RejectionsOf(InitCandidates, p)

\* C5 (as claimed): an openChannels failure that names a peer of the batch
\* stores a rejection for that peer alone, and the engine goes back to VERIFY
\* (it calls the node again) instead of returning.
C5_ImplicatedPeerRejectedThenReplan ==
    (pc = "done" /\ Answered("openChannels", "err")
       /\ parsed.pubkey \in ViablePubkeys) =>
        /\ \A p \in ViablePubkeys \ {parsed.pubkey} :
              RejectionsOf(candidates, p) = RejectionsOf(InitCandidates, p)
        /\ \E k, h \in 1..Len(log) :
              /\ k < h
              /\ log[k].op = "openChannels" /\ log[k].ev = "err"
              /\ log[h].ev = "call"

NoFundingCall ==
    ~Called("fundPsbt") /\ ~Called("signPsbt") /\ ~Called("fundPendingChannels")

RECURSIVE ConnectEvents(_)
ConnectEvents(S) ==
    IF S = {} THEN 0
    ELSE LET p == CHOOSE p \in S : TRUE IN
         Len(peerLog[p]) + ConnectEvents(S \ {p})

\* The steps a run can still take: its calls and their answers, all logged,
\* are bounded by the plan and by the addresses tried per peer.
StepsLeft ==
    IF pc \in {"done", "thrown"} THEN 0
    ELSE 12 + 2 * Len(plan.channels) * (MaxAddrs + 2) - Len(log)
         - ConnectEvents(DOMAIN peerLog)

C7_SuccessCarriesOwnPendingId ==
    (pc = "done" /\ Answered("fundPendingChannels", "ok")) =>
        \A p \in ViablePubkeys :
            /\ Cardinality(ResultsOf(p)) = 1
            /\ \A k \in ResultsOf(p) :
                  /\ results[k].success
                  /\ results[k].channelId # None
                  /\ results[k].channelId \in DOMAIN nodeStubs
                  /\ nodeStubs[results[k].channelId].partner = p

C7_Witness ==
    /\ pc = "done"
    /\ Answered("fundPendingChannels", "ok")
    /\ Len(viableAttempts) = 2

\* C8: after a failed fundPendingChannels every attempt that passed INITIATE
\* has a failed result with reason internal_error, no cancelPendingChannel
\* was called, the store holds no rejection but those of VERIFY, and one
\* history record is written.
C8_BroadcastFailure ==
    (pc = "done" /\ Answered("fundPendingChannels", "err")) =>
        /\ AllViableFailed
        /\ \A p \in ViablePubkeys : \A k \in ResultsOf(p) :
              results[k].rejectionReason = "internal_error"
        /\ ~Called("cancelPendingChannel")
        /\ candidates = AddRejections(InitCandidates, VerifyFailures)
        /\ Len(historyFile) = 1

C8_Witness ==
    /\ pc = "done"
    /\ Answered("fundPendingChannels", "err")
    /\ parsed.reason = "rejected"
    /\ \E p \in ViablePubkeys : FindCandidate(candidates, p) # 0

\* C9: a run that is not a dry run and returns has written exactly one
\* history record, which holds the plan and the result list it returns.
C9_OneHistoryRecord ==
    (pc = "done" /\ ~dryRun) =>
        /\ Len(historyFile) = 1
        /\ historyFile[1].plan = plan
        /\ historyFile[1].results = returned
        /\ returned = results

\* A return with no viable peer after VERIFY.
C9_Witness ==
    /\ pc = "done"
    /\ ~dryRun
    /\ Len(plan.channels) = 2
    /\ Len(VerifyFailures) = 2
    /\ ~Called("openChannels")

\* C10: a dry run returns one successful result per planned channel, in plan
\* order, with the placeholder channelId, and neither writes to the store nor
\* calls the node.
C10_DryRunHasNoEffect ==
    dryRun =>
        /\ log = <<>>
        /\ \A p \in Peers : peerLog[p] = <<>>
        /\ candidates = InitCandidates
        /\ historyFile = <<>>
        /\ pc = "done" =>
              /\ Len(returned) = Len(plan.channels)
              /\ \A k \in 1..Len(returned) :
                    /\ returned[k].pubkey = plan.channels[k].pubkey
                    /\ returned[k].success
                    /\ returned[k].channelId = DryRunId(returned[k].pubkey)

C10_Witness == dryRun /\ pc = "done" /\ Len(returned) = 2

\* The connectPeer traffic of one probe that went through its addresses in
\* order: call 1, answer, call 2, answer, ... with every answer but the last
\* an error.
InOrder(plog) ==
    /\ Len(plog) % 2 = 0
    /\ \A k \in 1..Len(plog) :
          /\ plog[k].address = (k + 1) \div 2
          /\ plog[k].ev = IF k % 2 = 1 THEN "call"
                          ELSE IF k = Len(plog) THEN plog[k].ev ELSE "err"
          /\ plog[k].ev \in {"call", "ok", "err"}

VerifyResultOf(pubkey) ==
    CHOOSE r \in {verificationResults[k] : k \in 1..Len(verificationResults)} :
        r.attempt.pubkey = pubkey

\* C11: once VERIFY is over, for each planned peer: a connected peer passed
\* with no connect call; a peer unknown to the graph failed not_online and a
\* known peer without addresses failed no_address, both with no connect call;
\* any other peer had its addresses tried one at a time in order up to the
\* first success, and failed (failed_to_connect) only when all of them
\* failed.  Every failed peer that is in the store has exactly one new
\* rejection, with that reason, appended to its stored list, whatever happens
\* later in the run.
C11_VerifyProbesAndRejections ==
    (VerifyOver /\ ~dryRun) =>
        \A p \in PlanPubkeys :
            LET r == VerifyResultOf(p)
                info == infoMap[p]
                n == Len(info.addresses)
                plog == peerLog[p]
            IN  /\ p \in connectedSet => (r.success /\ plog = <<>>)
                /\ (p \notin connectedSet /\ ~info.found) =>
                      (~r.success /\ r.reason = "not_online" /\ plog = <<>>)
                /\ (p \notin connectedSet /\ info.found /\ n = 0) =>
                      (~r.success /\ r.reason = "no_address" /\ plog = <<>>)
                /\ (p \notin connectedSet /\ info.found /\ n > 0) =>
                      /\ InOrder(plog)
                      /\ plog # <<>>
                      /\ Len(plog) <= 2 * n
                      /\ r.success = (plog[Len(plog)].ev = "ok")
                      /\ ~r.success =>
                            (r.reason = "failed_to_connect" /\ Len(plog) = 2 * n)
                /\ (~r.success /\ FindCandidate(InitCandidates, p) # 0) =>
                      RejectionsOf(candidates, p) =
                          Append(RejectionsOf(InitCandidates, p),
                                 Rejection(r.reason, r.errorMsg, Undef, now))
                /\ r.success =>
                      \/ pc = "done" /\ Answered("openChannels", "err")
                      \/ RejectionsOf(candidates, p) =
                             RejectionsOf(InitCandidates, p)

\* A stored peer whose second address answered, beside a stored peer that
\* failed on its only address, in a run that went on to fail at openChannels.
C11_Witness ==
    /\ pc = "done"
    /\ Answered("openChannels", "err")
    /\ \E p, q \in PlanPubkeys :
          /\ FindCandidate(InitCandidates, p) # 0
          /\ FindCandidate(InitCandidates, q) # 0
          /\ Len(peerLog[p]) = 4
          /\ VerifyResultOf(p).success
          /\ ~VerifyResultOf(q).success
          /\ VerifyResultOf(q).reason = "failed_to_connect"

\* Position of a planned peer in the attempts, and the batch it falls in.
AttemptIndex(pubkey) ==
    CHOOSE k \in 1..Len(plan.channels) : plan.channels[k].pubkey = pubkey

BatchNo(pubkey) == (AttemptIndex(pubkey) - 1) \div BATCH_SIZE

\* A probe is running from its first connectPeer call to its last answer.
ProbeStarted(pubkey) == peerLog[pubkey] # <<>>

ProbeRunning(pubkey) ==
    /\ peerLog[pubkey] # <<>>
    /\ peerLog[pubkey][Len(peerLog[pubkey])].ev = "call"

\* C12: at every instant at most BATCH_SIZE = 3 peers are being probed, and
\* once a probe of a later batch has started every probe of the earlier
\* batches has finished and the earlier batches' results are in.
C12_ProbesBatchedByThree ==
    /\ Cardinality({p \in PlanPubkeys : ProbeRunning(p)}) <= 3
    /\ \A p, q \in PlanPubkeys :
          (BatchNo(p) < BatchNo(q) /\ ProbeStarted(q)) =>
              /\ ~ProbeRunning(p)
              /\ Len(verificationResults) >= AttemptIndex(p)

\* Three probes of the first batch in flight at once; and a probe of the
\* second batch in flight after the first batch connected.
C12_Witness ==
    /\ Len(plan.channels) > BATCH_SIZE
    /\ ProbeRunning(plan.channels[4].pubkey)
    /\ \A k \in 1..3 : Len(peerLog[plan.channels[k].pubkey]) = 4

Planned(pubkey) ==
    \E k \in 1..Len(plan.channels) : plan.channels[k].pubkey = pubkey

\* The rejection allows a new attempt at time t by the policy of its reason.
Allows(rejection, t) ==
    /\ rejection.reason \in DOMAIN REJECTION_CONFIG
    /\ REJECTION_CONFIG[rejection.reason].retryable
    /\ REJECTION_CONFIG[rejection.reason].cooldownDays # Undef =>
          t - rejection.date >=
              REJECTION_CONFIG[rejection.reason].cooldownDays * DayMs

\* C14: isEligible answers false for every stored candidate whose pubkey is
\* among openPeerPubkeys, whatever its rejections: none, or only retryable
\* ones past their cooldown; and createPlan does not plan such a candidate.
C14_OpenPeerNeverEligible ==
    \A k \in 1..Len(candidates) :
        candidates[k].pubkey \in planOptions.openPeerPubkeys =>
            /\ isEligible(candidates[k], planOptions.openPeerPubkeys) = "false"
            /\ pc = "planned" => ~Planned(candidates[k].pubkey)

\* A peer with an open channel and no rejection, left out of a plan that the
\* budget would have let it into.
C14_Witness ==
    /\ pc = "planned"
    /\ \E k \in 1..Len(candidates) :
          /\ candidates[k].pubkey \in planOptions.openPeerPubkeys
          /\ candidates[k].rejections = <<>>
          /\ planOptions.budget >= 12500
          /\ plan.channels = <<>>

CoolingCandidates ==
    {k \in 1..Len(candidates) :
        /\ candidates[k].pubkey \notin planOptions.openPeerPubkeys
        /\ Len(candidates[k].rejections) = 1
        /\ candidates[k].rejections[1].reason
               \in {"failed_to_connect", "not_online"}}

CooldownOf(reason) == IF reason = "failed_to_connect" THEN DayMs ELSE 7 * DayMs

\* C16: a candidate whose only rejection is a failed_to_connect (1 day) or a
\* not_online (7 days) is ineligible while the rejection is younger than the
\* cooldown and eligible from the instant it is that old; and while the store
\* is not written, a candidate that is eligible stays eligible as the clock
\* moves on.
C16_CooldownExpiresOnce ==
    /\ [](\A k \in CoolingCandidates :
            isEligible(candidates[k], planOptions.openPeerPubkeys) =
                IF now - candidates[k].rejections[1].date
                       >= CooldownOf(candidates[k].rejections[1].reason)
                THEN "true" ELSE "false")
    /\ [][\A k \in 1..Len(candidates) :
            (/\ candidates' = candidates
             /\ planOptions' = planOptions
             /\ isEligible(candidates[k], planOptions.openPeerPubkeys) = "true")
            => isEligible(candidates[k], planOptions.openPeerPubkeys)' = "true"
         ]_vars

\* A not_online rejection exactly seven days old, and its candidate planned.
C16_Witness ==
    /\ pc = "planned"
    /\ \E k \in CoolingCandidates :
          /\ candidates[k].rejections[1].reason = "not_online"
          /\ now - candidates[k].rejections[1].date = 7 * DayMs
          /\ Planned(candidates[k].pubkey)

\* C17: the policy table marks min_channel_size, batch_failed and
\* internal_error retryable with no cooldown, failed_to_connect retryable
\* after 1 day, not_online retryable after 7 days, and no_anchors, no_address,
\* rejected, no_routing, custom_requirements and coop_close not retryable, in
\* every state of a planner run; and every stored rejection has its reason in
\* the table.
C17_RejectionPolicyTable ==
    /\ \A k \in 1..Len(candidates) : \A h \in 1..Len(candidates[k].rejections) :
          candidates[k].rejections[h].reason \in DOMAIN REJECTION_CONFIG
    /\ \A reason \in {"min_channel_size", "batch_failed", "internal_error"} :
          /\ REJECTION_CONFIG[reason].retryable
          /\ REJECTION_CONFIG[reason].cooldownDays \in {Undef, 0}
    /\ REJECTION_CONFIG["failed_to_connect"] =
           [retryable |-> TRUE, cooldownDays |-> 1]
    /\ REJECTION_CONFIG["not_online"] = [retryable |-> TRUE, cooldownDays |-> 7]
    /\ \A reason \in {"no_anchors", "no_address", "rejected", "no_routing",
                      "custom_requirements", "coop_close"} :
          ~REJECTION_CONFIG[reason].retryable

\* A plan made over a store that holds a two-day-old no_address rejection,
\* whose candidate is left out.
C17_Witness ==
    /\ pc = "planned"
    /\ now > ClockStart + DayMs
    /\ \E k \in 1..Len(candidates) :
          /\ Len(candidates[k].rejections) = 1
          /\ candidates[k].rejections[1].reason = "no_address"
          /\ candidates[k].rejections[1].date = 0
          /\ ~Planned(candidates[k].pubkey)

\* C18 (as claimed): too_many_pending has an entry in the policy table,
\* retryable with a positive cooldown, so a candidate whose only rejection is
\* a too_many_pending written just now is ineligible, and one whose
\* too_many_pending is as old as the cooldown is eligible.
C18_TooManyPendingIsTransient ==
    /\ "too_many_pending" \in DOMAIN REJECTION_CONFIG
    /\ REJECTION_CONFIG["too_many_pending"].retryable
    /\ REJECTION_CONFIG["too_many_pending"].cooldownDays > 0
    /\ LET Pending(date) ==
               ChannelCandidate("02aa", <<"manual">>, <<>>, 10, 1, 0,
                   << Rejection("too_many_pending", <<>>, Undef, date) >>,
                   Undef)
           cooldownMs == REJECTION_CONFIG["too_many_pending"].cooldownDays * DayMs
       IN  /\ isEligible(Pending(now), {}) = "false"
           /\ isEligible(Pending(now - cooldownMs), {}) = "true"

\* ----------------------------------------------- properties: createPlan
\* The amounts of the first k planned channels, added up.
RECURSIVE PlannedSum(_)
PlannedSum(k) ==
    IF k = 0 THEN 0 ELSE plan.channels[k].amount + PlannedSum(k - 1)

\* C19 (as claimed): a plan returned by createPlan has totalAmount +
\* remainingBudget = budget.
C19_TotalPlusRemainingIsBudget ==
    pc = "planned" => plan.totalAmount + plan.remainingBudget = plan.budget

\* C19 (amended): a plan returned by createPlan has totalAmount +
\* remainingBudget = budget - ANCHOR_RESERVE * (number of planned channels),
\* which is the budget only for a plan without channels.
C19_TotalPlusRemainingIsBudgetLessReserves ==
    pc = "planned" =>
        /\ plan.totalAmount + plan.remainingBudget =
               plan.budget - ANCHOR_RESERVE * Len(plan.channels)
        /\ (plan.totalAmount + plan.remainingBudget = plan.budget)
               <=> plan.channels = <<>>

\* Two channels planned and budget left over.
C19_Witness ==
    /\ pc = "planned"
    /\ Len(plan.channels) = 2
    /\ plan.remainingBudget > 0

\* C20: a plan returned by createPlan has totalAmount = the sum of its
\* channels' amounts (reserves not counted) and remainingBudget = budget -
\* the sum over its channels of (amount + 2500), for the budget it was asked
\* for.
C20_AmountsAndReservesAccounted ==
    pc = "planned" =>
        /\ plan.budget = planOptions.budget
        /\ plan.totalAmount = PlannedSum(Len(plan.channels))
        /\ plan.remainingBudget =
               plan.budget - (PlannedSum(Len(plan.channels))
                              + 2500 * Len(plan.channels))

\* Three channels, one of them at a learned minimum above the default size.
C20_Witness ==
    /\ pc = "planned"
    /\ Len(plan.channels) = 3
    /\ \E k \in 1..3 : plan.channels[k].isMinimumEnforced

\* -------------------------------------------- properties: plan contents
\* The stored candidate a planned channel was made for.
CandidateOf(pubkey) == candidates[FindCandidate(candidates, pubkey)]

\* Total of feesEarned over the first k entries of a history.
RECURSIVE FeesUpTo(_, _)
FeesUpTo(history, k) ==
    IF k = 0 THEN 0
    ELSE FeesUpTo(history, k - 1)
         + (IF history[k].feesEarned = Undef THEN 0 ELSE history[k].feesEarned)

TotalFees(c) == FeesUpTo(c.history, Len(c.history))

IsManual(c) == \E k \in 1..Len(c.sources) : c.sources[k] = "manual"

\* C21 (as claimed): with the candidates, defaultSize, maxSize and
\* openPeerPubkeys held fixed, createPlan never plans fewer channels for a
\* larger budget: the plan made has at least as many channels as the plan
\* for any smaller budget.
C21_ChannelCountMonotoneInBudget ==
    pc = "planned" =>
        \A b \in Budgets :
            b <= planOptions.budget =>
                Len(createPlan([planOptions EXCEPT !.budget = b],
                               candidates).channels)
                    <= Len(plan.channels)

\* C22: every channel of a plan returned by createPlan has as amount the
\* larger of its candidate's learned minimum (0 when there is none) and
\* defaultSize, and isMinimumEnforced exactly when the amount is above
\* defaultSize.
C22_AmountIsEffectiveMinimum ==
    pc = "planned" =>
        \A k \in 1..Len(plan.channels) :
            LET ch == plan.channels[k]
                c == CandidateOf(ch.pubkey)
                learned == IF c.minChannelSize = Undef THEN 0
                           ELSE c.minChannelSize
            IN  /\ FindCandidate(candidates, ch.pubkey) # 0
                /\ ch.amount = IF learned > planOptions.defaultSize
                               THEN learned ELSE planOptions.defaultSize
                /\ ch.amount >= learned
                /\ ch.amount >= planOptions.defaultSize
                /\ ch.isMinimumEnforced <=> (ch.amount > planOptions.defaultSize)

\* A plan with one channel at the default size and one at a learned minimum.
C22_Witness ==
    /\ pc = "planned"
    /\ \E k \in 1..Len(plan.channels) :
          /\ plan.channels[k].isMinimumEnforced
          /\ plan.channels[k].amount = CandidateOf(plan.channels[k].pubkey).minChannelSize
    /\ \E k \in 1..Len(plan.channels) :
          /\ ~plan.channels[k].isMinimumEnforced
          /\ plan.channels[k].amount = planOptions.defaultSize

\* C23: every channel of a plan returned by createPlan is for a stored
\* candidate that has no open or pending channel, whose rejections all allow
\* a new attempt, and whose effective minimum is at most maxSize; so no
\* planned amount is above maxSize.
C23_PlannedAreEligibleAndFundable ==
    pc = "planned" =>
        \A k \in 1..Len(plan.channels) :
            LET ch == plan.channels[k]
                c == CandidateOf(ch.pubkey)
            IN  /\ FindCandidate(candidates, ch.pubkey) # 0
                /\ isEligible(c, planOptions.openPeerPubkeys) = "true"
                /\ ch.pubkey \notin planOptions.openPeerPubkeys
                /\ \A r \in 1..Len(c.rejections) : Allows(c.rejections[r], now)
                /\ c.minChannelSize # Undef =>
                       c.minChannelSize <= planOptions.maxSize
                /\ planOptions.defaultSize <= planOptions.maxSize
                /\ ch.amount <= planOptions.maxSize

\* A plan was made from a store that holds a candidate with an open channel,
\* one in cooldown and one whose learned minimum is above maxSize, with
\* budget enough for all of them.
C23_Witness ==
    /\ pc = "planned"
    /\ plan.channels # <<>>
    /\ plan.remainingBudget >= 50000 + ANCHOR_RESERVE
    /\ \E k \in 1..Len(candidates) :
          candidates[k].pubkey \in planOptions.openPeerPubkeys
    /\ \E k \in 1..Len(candidates) :
          /\ candidates[k].minChannelSize # Undef
          /\ candidates[k].minChannelSize > planOptions.maxSize
          /\ isEligible(candidates[k], planOptions.openPeerPubkeys) = "true"

\* a comes before b by the first three criteria of the order, or they are
\* level on all three.
SignalOrdered(a, b) ==
    /\ IsManual(b) => IsManual(a)
    /\ (IsManual(a) <=> IsManual(b)) => TotalFees(a) >= TotalFees(b)
    /\ ((IsManual(a) <=> IsManual(b)) /\ TotalFees(a) = TotalFees(b))
           => Len(a.sources) >= Len(b.sources)

\* C24: in the list sortCandidatesBySignal returns, and so in the channels
\* of a plan, a manual candidate is before every candidate that is not
\* manual; of two with the same manual status the one with more fees earned
\* is first; with the fees equal too, the one with more sources is first.
\* The list is a reordering of its input, and the stored list is left as it
\* was.
C24_SortOrder ==
    /\ [](LET sorted == sortCandidatesBySignal(candidates) IN
            /\ Len(sorted) = Len(candidates)
            /\ \A k \in 1..Len(candidates) :
                  \E h \in 1..Len(sorted) : sorted[h] = candidates[k]
            /\ \A i \in 1..Len(sorted) : \A j \in (i + 1)..Len(sorted) :
                  SignalOrdered(sorted[i], sorted[j])
            /\ pc = "planned" =>
                  \A i \in 1..Len(plan.channels) :
                      \A j \in (i + 1)..Len(plan.channels) :
                          SignalOrdered(CandidateOf(plan.channels[i].pubkey),
                                        CandidateOf(plan.channels[j].pubkey)))
    /\ [][candidates' = candidates]_vars

\* A plan whose first channel is for a manual candidate without fees that
\* is stored behind a candidate with fees, and whose later channels put a
\* two-source candidate before a one-source candidate of larger capacity.
C24_Witness ==
    /\ pc = "planned"
    /\ \E i \in 1..Len(plan.channels) : \E j \in (i + 1)..Len(plan.channels) :
          LET a == CandidateOf(plan.channels[i].pubkey)
              b == CandidateOf(plan.channels[j].pubkey)
          IN  /\ IsManual(a) /\ ~IsManual(b)
              /\ TotalFees(a) < TotalFees(b)
              /\ FindCandidate(candidates, a.pubkey)
                     > FindCandidate(candidates, b.pubkey)
    /\ \E i \in 1..Len(plan.channels) : \E j \in (i + 1)..Len(plan.channels) :
          LET a == CandidateOf(plan.channels[i].pubkey)
              b == CandidateOf(plan.channels[j].pubkey)
          IN  /\ ~IsManual(a) /\ ~IsManual(b)
              /\ TotalFees(a) = TotalFees(b)
              /\ Len(a.sources) > Len(b.sources)
              /\ a.capacitySats * a.channels < b.capacitySats * b.channels

\* ------------------------------------------------ properties: plan edits
\* The edit made last, and the one before it.
LastEdit == planEdits[Len(planEdits)]

EditBefore == planEdits[Len(planEdits) - 1]

\* The last two edits are a removal that went through and an addToPlan of
\* the removed channel's pubkey at the removed channel's amount.
RemovedThenAddedBack ==
    /\ Len(planEdits) >= 2
    /\ EditBefore.op = "remove"
    /\ EditBefore.error = None
    /\ LastEdit.op = "add"
    /\ LastEdit.pubkey = EditBefore.removed.pubkey
    /\ LastEdit.amount = EditBefore.removed.amount

\* C25: when a channel is removed from a plan and the same pubkey is added
\* again at the amount the removed channel had, the addition goes through
\* and totalAmount and remainingBudget are what they were before the
\* removal.
C25_RemoveThenAddRestoresTotals ==
    RemovedThenAddedBack =>
        /\ LastEdit.error = None
        /\ plan.totalAmount = EditBefore.totalBefore
        /\ plan.remainingBudget = EditBefore.remainingBefore

\* A channel at a learned minimum was removed from a plan of two and added
\* back.
C25_Witness ==
    /\ RemovedThenAddedBack
    /\ LastEdit.error = None
    /\ Len(plan.channels) = 2
    /\ EditBefore.removed.amount > plan.defaultSize
    /\ EditBefore.remainingBefore < EditBefore.removed.amount

\* C26: an edit that fails leaves the plan as it was.  addToPlan fails with
\* CandidateNotFound exactly for a pubkey that is not stored, and with
\* InsufficientBudget when the amount is above remainingBudget;
\* removeFromPlan and resizeInPlan fail with InvalidIndex exactly for an
\* index below 0 or not below the number of channels; resizeInPlan fails
\* with InsufficientBudget when the increase is above remainingBudget.  A
\* removal that goes through takes out that one channel and adds its amount
\* to remainingBudget; a resize that goes through sets the amount and sets
\* isMinimumEnforced exactly when the new amount is above defaultSize.
C26_FailedEditsLeavePlan ==
    [][Len(planEdits') = Len(planEdits) + 1 =>
        LET e == planEdits'[Len(planEdits')]
            stored == FindCandidate(candidates, e.pubkey) # 0
            inRange == e.index >= 0 /\ e.index < Len(plan.channels)
            asked == IF e.amount # Undef THEN e.amount
                     ELSE IF CandidateOf(e.pubkey).minChannelSize
                                 > plan.defaultSize
                     THEN CandidateOf(e.pubkey).minChannelSize
                     ELSE plan.defaultSize
        IN  /\ e.error # None => plan' = plan
            /\ e.op = "add" =>
                  /\ e.error = "CandidateNotFound" <=> ~stored
                  /\ (stored /\ asked > plan.remainingBudget)
                         <=> e.error = "InsufficientBudget"
            /\ e.op \in {"remove", "resize"} =>
                  (e.error = "InvalidIndex" <=> ~inRange)
            /\ e.op = "remove" => e.error \in {None, "InvalidIndex"}
            /\ (e.op = "resize" /\ inRange) =>
                  (e.error = "InsufficientBudget" <=>
                      e.amount - plan.channels[e.index + 1].amount
                          > plan.remainingBudget)
            /\ (e.op = "remove" /\ e.error = None) =>
                  /\ plan'.remainingBudget =
                         plan.remainingBudget + plan.channels[e.index + 1].amount
                  /\ Len(plan'.channels) = Len(plan.channels) - 1
                  /\ \A k \in 1..Len(plan'.channels) :
                        plan'.channels[k] =
                            plan.channels[IF k <= e.index THEN k ELSE k + 1]
            /\ (e.op = "resize" /\ e.error = None) =>
                  /\ plan'.channels[e.index + 1].amount = e.amount
                  /\ plan'.channels[e.index + 1].isMinimumEnforced
                         <=> (e.amount > plan.defaultSize)
                  /\ plan'.remainingBudget + e.amount =
                         plan.remainingBudget + plan.channels[e.index + 1].amount
    ]_vars

\* A session in which a resize failed for lack of budget and a removal then
\* went through.
C26_Witness ==
    /\ Len(planEdits) >= 2
    /\ EditBefore.op = "resize"
    /\ EditBefore.error = "InsufficientBudget"
    /\ LastEdit.op = "remove"
    /\ LastEdit.error = None
    /\ plan.remainingBudget > LastEdit.remainingBefore

\* ----------------------------------------- properties: error classifier
\* The message holds the fragment.
Mentions(msg, fragment) == \E k \in 1..Len(msg) : msg[k] = fragment

\* C27 (as claimed): a message that states a peer minimum, "chan size of
\* 100000sat is below min chan size of 200000sat", is classified
\* min_channel_size with minSize 200000, whatever else the message holds:
\* connectivity words, a remote cancel, "err".
C27_PeerMinimumClassifiedFirst ==
    (pc = "parsed" /\ Mentions(parsed.details, PeerMinimum)) =>
        /\ parsed.reason = "min_channel_size"
        /\ parsed.minSize = 200000

\* C28 (as claimed): the error object {some_field: "cherry"}, which matches
\* no specific rule, is classified rejected and not internal_error.
C28_CherryIsNotInternalError ==
    (/\ pc = "parsed"
     /\ thrown = ObjectValue(<< Field("some_field",
                                      StringValue(<< "cherry" >>)) >>)) =>
        parsed.reason = "rejected"

\* C29 (as claimed): a message holding "pending channels exceed maximum" is
\* classified too_many_pending, also when it holds "remote canceled
\* funding, possibly timed out", and the pubkey found in the message is
\* still returned.
C29_PendingExceededIsTooManyPending ==
    (pc = "parsed" /\ Mentions(parsed.details, PendingExceeded)) =>
        /\ parsed.reason = "too_many_pending"
        /\ \A k \in 1..Len(parsed.details) :
              parsed.details[k] = "02aa" => parsed.pubkey # None

\* The places of the message where 66 hexadecimal characters starting 02 or
\* 03 stand.
PubkeyPlaces(msg) == {k \in 1..Len(msg) : PubkeyIn(msg[k]) # None}

C31_OverheadAddedToMinimum ==
    (pc = "parsed" /\ thrown = StringValue(<< FundingShortfall >>)) =>
        /\ parsed.reason = "min_channel_size"
        /\ parsed.minSize = 1030944

\* ------------------------------------------------ properties: the store
\* The sizes the min_channel_size rejections of a list report.
ReportedMinimums(rejections) ==
    {rejections[j].minChannelSize : j \in
        {j \in 1..Len(rejections) :
            /\ rejections[j].reason = "min_channel_size"
            /\ rejections[j].minChannelSize # Undef}}

Stored(pubkey) == candidates[FindCandidate(candidates, pubkey)]

\* C32: over any sequence of addRejection and upsertCandidate calls, the
\* rejections of a stored candidate only grow (what was stored stays, as it
\* was and in its order), its minChannelSize never decreases, and it is the
\* largest size reported by its stored min_channel_size rejections,
\* undefined when none reports a size.
C32_RejectionsGrowMinimumIsMax ==
    /\ [](\A k \in 1..Len(candidates) :
            LET sizes == ReportedMinimums(candidates[k].rejections)
                minimum == candidates[k].minChannelSize
            IN  IF sizes = {} THEN minimum = Undef
                ELSE minimum \in sizes /\ \A n \in sizes : n <= minimum)
    /\ [][/\ Len(candidates') >= Len(candidates)
          /\ \A k \in 1..Len(candidates) :
                LET before == candidates[k]
                    after == candidates'[k]
                IN  /\ after.pubkey = before.pubkey
                    /\ Len(after.rejections) >= Len(before.rejections)
                    /\ SubSeq(after.rejections, 1, Len(before.rejections))
                           = before.rejections
                    /\ after.minChannelSize >= before.minChannelSize]_vars

\* A smaller minimum reported after a larger one: the learned minimum stays
\* at the larger.
C32_Witness ==
    /\ storeCall = RejectCall("02aa", Rejection("min_channel_size", <<>>,
                                                1000, ClockStart))
    /\ Len(Stored("02aa").rejections) = 2
    /\ Stored("02aa").rejections[1].minChannelSize = 5000
    /\ Stored("02aa").minChannelSize = 5000

\* The channelIds of a history.
ChannelIds(history) == {history[j].channelId : j \in 1..Len(history)}

\* The step is an upsertCandidate call for a pubkey the store holds.
UpsertOfStored ==
    /\ storeCall'.op = "upsertCandidate"
    /\ FindCandidate(candidates, storeCall'.candidate.pubkey) # 0

C34_UpsertMergesSources ==
    [][UpsertOfStored =>
        LET incoming == storeCall'.candidate
            k == FindCandidate(candidates, incoming.pubkey)
            before == candidates[k].sources
            after == candidates'[k].sources
        IN  /\ {after[j] : j \in 1..Len(after)} =
                   {before[j] : j \in 1..Len(before)}
                   \cup {incoming.sources[j] : j \in 1..Len(incoming.sources)}
            /\ \A i, j \in 1..Len(after) : after[i] = after[j] => i = j
       ]_vars

\* ------------------------------------------- properties: plan and budget
\* The stored candidates createPlan allocates over: eligible, and with an
\* effective minimum of at most maxSize.
Fundable(c) ==
    /\ isEligible(c, planOptions.openPeerPubkeys) = "true"
    /\ Max(IF c.minChannelSize = Undef THEN 0 ELSE c.minChannelSize,
           planOptions.defaultSize) <= planOptions.maxSize

\* What a channel to the candidate takes from the budget.
Required(c) ==
    Max(IF c.minChannelSize = Undef THEN 0 ELSE c.minChannelSize,
        planOptions.defaultSize) + ANCHOR_RESERVE

\* C35: createPlan passes over a candidate it cannot afford and goes on to
\* the next, and stopping once less than defaultSize + ANCHOR_RESERVE is
\* left loses nothing: every eligible candidate with effective minimum at
\* most maxSize that the plan leaves out needs more than remainingBudget.
C35_LeftOutCannotBeAfforded ==
    pc = "planned" =>
        \A k \in 1..Len(candidates) :
            (Fundable(candidates[k]) /\ ~Planned(candidates[k].pubkey)) =>
                Required(candidates[k]) > plan.remainingBudget

\* 03bb, with fees earned and a learned minimum of 20000, is passed over
\* once 02aa is planned out of 30000, and 02ee after it is planned.
C35_Witness ==
    /\ pc = "planned"
    /\ planOptions.budget = 30000
    /\ Len(plan.channels) = 2
    /\ plan.channels[1].pubkey = "02aa"
    /\ plan.channels[2].pubkey = "02ee"
    /\ FindCandidate(candidates, "03bb") # 0
    /\ Fundable(CandidateOf("03bb"))
    /\ plan.remainingBudget = 5000

\* C36: a plan returned by createPlan, for a budget of 0 or more, commits
\* no more than the budget: its channels' amounts plus one ANCHOR_RESERVE
\* each come to at most the budget, and remainingBudget is 0 or more.
C36_NeverOverCommits ==
    (pc = "planned" /\ planOptions.budget >= 0) =>
        /\ PlannedSum(Len(plan.channels))
               + ANCHOR_RESERVE * Len(plan.channels) <= plan.budget
        /\ plan.remainingBudget >= 0

\* The budget is used up to the last satoshi by two channels.
C36_Witness ==
    /\ pc = "planned"
    /\ planOptions.budget = 25000
    /\ Len(plan.channels) = 2
    /\ plan.remainingBudget = 0

\* C37 (as claimed): after createPlan and any addToPlan, removeFromPlan and
\* resizeInPlan calls that returned, the plan's amounts plus one
\* ANCHOR_RESERVE per channel come to at most the budget, remainingBudget
\* is 0 or more, and totalAmount is the sum of the amounts.
C37_EditsKeepReserveAndBudget ==
    pc = "planned" =>
        /\ PlannedSum(Len(plan.channels))
               + ANCHOR_RESERVE * Len(plan.channels) <= plan.budget
        /\ plan.remainingBudget >= 0
        /\ plan.totalAmount = PlannedSum(Len(plan.channels))

\* C38 (as claimed): the channels of a plan have pairwise distinct pubkeys,
\* as createPlan returns it over a store of distinct pubkeys and after any
\* addToPlan, removeFromPlan and resizeInPlan calls that returned.
C38_PlanPubkeysDistinct ==
    pc = "planned" =>
        \A i, j \in 1..Len(plan.channels) :
            plan.channels[i].pubkey = plan.channels[j].pubkey => i = j

\* ------------------------------------------ properties: one batch, once
\* The peers whose stub openChannels has returned.
PassedInitiate ==
    IF Answered("openChannels", "ok") THEN ViablePubkeys ELSE {}

\* C39: in one executePlan run the results of the peers that passed
\* INITIATE are all successes or all failures, one of them is a success
\* only if fundPendingChannels has answered with success, and the run never
\* calls both cancelPendingChannel and fundPendingChannels.
C39_AllOrNothing ==
    /\ \A p \in PassedInitiate, q \in PassedInitiate :
          \A i \in ResultsOf(p), j \in ResultsOf(q) :
              results[i].success = results[j].success
    /\ \A p \in PassedInitiate : \A i \in ResultsOf(p) :
          results[i].success => Answered("fundPendingChannels", "ok")
    /\ ~(Called("cancelPendingChannel") /\ Called("fundPendingChannels"))

\* Two peers passed INITIATE, the batch was broadcast and both results are
\* successes.
C39_Witness ==
    /\ pc = "done"
    /\ Cardinality(PassedInitiate) = 2
    /\ Answered("fundPendingChannels", "ok")
    /\ \A p \in PassedInitiate :
          \E i \in ResultsOf(p) : results[i].success

\* A stub of the batch made for the peer is funded.
BatchFunded(pubkey) ==
    \E id \in DOMAIN nodeStubs :
        nodeStubs[id].partner = pubkey /\ nodeStubs[id].state = "funded"

\* C40 (as claimed): executePlanWithFallback opens no second channel to a
\* peer: when the sequential openChannel calls are made, no
\* fundPendingChannels call of the batch has succeeded and every stub of
\* the batch is cancelled, also when executePlan rejected because a store
\* write threw after the node calls.
C40_FallbackOpensNoPeerTwice ==
    Called("openChannel") =>
        /\ ~Answered("fundPendingChannels", "ok")
        /\ \A id \in DOMAIN nodeStubs : nodeStubs[id].state = "cancelled"
        /\ \A p \in PlanPubkeys :
              ~(BatchFunded(p) /\ \E k \in 1..Len(log) :
                                     /\ log[k].op = "openChannel"
                                     /\ log[k].ev = "ok"
                                     /\ log[k].arg = p)

====
